---- MODULE Spec2Model ----
(***************************************************************************)
(* A model of AndroidPerf (src/android_perf): the CPU/memory sampler of    *)
(* AndroidPerfBaseHelper with its worker pool, the rate calculator of      *)
(* CPUUsageAdb, and the capture sessions (HTTP request capture through a   *)
(* whistle proxy, traffic logging, screen recording).                      *)
(*                                                                         *)
(* One group of variables per component.  Each specification drives one    *)
(* component and leaves the variables of the others at their initial       *)
(* "off" value:                                                            *)
(*   Spec          the sampler: start_test_cpu_memory and its pool tasks   *)
(*   SpecFair      the same under weak fairness, for termination           *)
(*   SpecAgg       _compute_cpu_memory as a function of its arguments      *)
(*   SpecRate      compute_cpu_rate as a pure function                     *)
(*   SpecReqCount  start_test_req_count / stop_test_req_count              *)
(*   SpecNetflow   start_test_netflow                                      *)
(*   SpecRecord    start_screen_record / stop_screen_record                *)
(*   SpecPcu       get_processes_cpu_usage                                 *)
(*   SpecSnap      compute_cpu_rate over two sampler snapshots             *)
(*   SpecMem       get_process_memory / get_processes_memory over ticks    *)
(*   SpecQuiet     check_app_netflow_in_threshold and                      *)
(*                 check_device_netflow_in_threshold                       *)
(*   SpecShared    one tick's pid list shared by its CPU and memory tasks  *)
(*   SpecClose     a with-block over an adb proxy and its close()          *)
(*   SpecTools     check_tools_app over several proxy instances            *)
(*   SpecFreq      get_cpu_x_max_freq over several adb instances           *)
(*                                                                         *)
(* Python floats are modelled as exact rationals <<numerator, denominator>>*)
(* (never reduced), an optional value (None or a value) as a sequence of   *)
(* length 0 or 1, a dict as a function whose DOMAIN is its key set.        *)
(***************************************************************************)
EXTENDS Integers, Sequences, FiniteSets, TLC

VARIABLES
    \* ---- sampler (perf_helper.py, start_test_cpu_memory) ----
    s_pc,        \* position of the control thread
    s_i,         \* loop variable i of `for i in range(max_listen_seconds)`
    max_listen,  \* argument max_listen_seconds
    min_wait,    \* argument min_wait_seconds
    keep,        \* data['keep']
    dataCpu,     \* data['cpu']
    dataMem,     \* data['memory']
    raw,         \* tmp_data: tick key -> record {cpu_g, cpu_a, memory}
    task,        \* pool: request -> its state
    cbLocal,     \* per callback task: the local cpu_list / memory_list
    flagAtCheck, \* what the control thread read at its latest `if not data['keep']`
    lateTicks,   \* history: ticks dispatched while data['keep'] was False
    flagReads,   \* history: reads of data['keep'] by the control thread
    \* ---- _compute_cpu_memory as a function of its arguments ----
    ag_pc,       \* "input", then "returned" or "raised"
    ag_raw,      \* argument raw_data
    ag_data,     \* argument data: [cpu, mem]
    \* ---- compute_cpu_rate as a function of its arguments ----
    rt_pc,       \* "input", then "returned" or "raised"
    rt_in,       \* [ss, es, sa, ea, norm]: the five arguments
    rt_out,      \* the returned pair [app, sys]
    \* ---- HTTP request capture (start_test_req_count, stop_test_req_count) ----
    rq_pc,       \* position of the caller inside the helper
    rq_op,       \* "start" or "stop": the helper method being run
    rq_listen,   \* argument listen_seconds
    rq_checking, \* argument checking_app_threshold_before_start
    rq_check,    \* the quiescence check: "none", "skipped", "true", "false", "raises"
    rq_is_error, \* local is_error
    rq_exc,      \* the exception in flight: "none", "precheck", "proxy", "session", "teardown"
    rq_set,      \* set_http_proxy(whistle_address) has succeeded
    rq_resets,   \* history: calls of reset_whistle_server_and_close_device_http_proxy
    rq_closes,   \* history: calls of close_http_proxy
    rq_closed,   \* history: the device accepted the close_http_proxy command
    rq_onstart,  \* history: calls of on_start_test_req_count
    rq_proxy0,   \* the device's http_proxy setting before the session
    dev_proxy,   \* the device's global http_proxy setting
    wh_settings, \* whistle.statistics plugin: uploadArgs, "" when reset
    wh_active,   \* whistle.statistics plugin: capture active
    \* ---- traffic logging (start_test_netflow) ----
    nf_pc,       \* position of the caller inside the helper
    nf_listen,   \* argument listen_seconds
    nf_started,  \* prepare_and_start_statistics_net_traffic has succeeded
    nf_stops,    \* history: stop commands sent by finish_statistics_net_traffic
    nf_dels,     \* history: log deletions by finish_statistics_net_traffic
    nf_kills,    \* history: tool app kills by finish_statistics_net_traffic
    nf_cat,      \* local rs: the log as read, None for 'No such file or directory'
    nf_out,      \* length of the returned net_up / net_down lists, -1 before return
    tool_perm,   \* the tool app may write its log file (VPN and file permissions)
    dev_stats,   \* device: the tool's traffic statistics are running
    dev_log,     \* device: number of lines of the log file, None if there is no file
    dev_tool,    \* device: the tool app's process is running
    \* ---- screen recording (start_screen_record, stop_screen_record) ----
    rec_pc,      \* position of the caller inside the helper
    rec_wait,    \* argument record_wait_seconds
    rec_auto_delete, \* argument auto_delete
    rec_started, \* the tool accepted the start-recording command
    rec_stops,   \* history: stop-recording commands sent
    rec_cmds,    \* history: the commands sent to the tool, in order
    rec_calls,   \* history: the callbacks invoked, in order
    dev_cfg,     \* device: the tool's settings, None before any settings command
    dev_rec,     \* device: "idle", "asking" (permission dialog) or "recording"
    \* ---- get_processes_cpu_usage (cpu.py) ----
    pu_pc,       \* "loop", then "returned" or "raised"
    pu_list0,    \* argument process_id_list as passed
    pu_list,     \* the list object process_id_list, which the function mutates
    pu_auto,     \* argument auto_remove_miss_process
    pu_stat,     \* device: pid -> what reading /proc/<pid>/stat gives
    pu_idx,      \* position of `for pi in process_id_list`
    pu_total_u,  \* local total_u
    pu_total_s,  \* local total_s
    pu_miss,     \* local miss_pid_list
    pu_reads,    \* history: the pids whose stat was read, in order
    pu_out,      \* the returned AppCPU, None before return
    \* ---- two sampler snapshots and their CPU rate (cpu.py) ----
    sn_pc,       \* "input", then "returned" or "raised"
    sn_in,       \* [path, procs, gone, other, idle, freq]: what the device did between the snapshots
    sn_out,      \* [norm, raw]: compute_cpu_rate with and without normalisation
    \* ---- memory fetches of consecutive ticks (memory.py, perf_helper.py) ----
    mm_pc,       \* "tick", "fetch" (between two get_process_memory calls), "retry" (inside one), "done"
    mm_mode,     \* "main": main_process_only with a main pid; "multi": the pid list of the app
    mm_tick,     \* idx of the tick being worked on
    mm_alive,    \* device: the app's processes that exist
    mm_list,     \* the pids this tick's memory fetch polls
    mm_idx,      \* position of `for pi in process_id_list`
    mm_dumps,    \* `dumpsys meminfo` commands sent by the current get_process_memory call
    mm_total,    \* local total of get_processes_memory (total_pss), None or a number
    mm_polls,    \* history: [pid, tick, reply] of every get_process_memory call that returned
    mm_fields,   \* the 'memory' field written for each finished tick
    \* ---- quiescence detectors (perf_helper.py, check_*_netflow_in_threshold) ----
    q_pc,        \* "call", "go_back", "loop", "stop" (the finally clause), "returned", "raised"
    q_kind,      \* "app": check_app_netflow_in_threshold; "device": check_device_netflow_in_threshold
    q_max,       \* argument max_check_second
    q_limit,     \* argument limit_seconds
    q_script,    \* the per-second traffic the device will show, <<>> when it is free
    q_i,         \* samples taken by the loop so far
    q_log,       \* app: the lines of the tool's log at the last read (latest); device: traffics
    q_exit,      \* "none", the result "true" / "false", or the exception that leaves the function
    q_started,   \* the traffic statistics of the tool have been started
    q_stops,     \* history: stop_statistics_net_traffic commands sent
    \* ---- one tick's pid list shared by its two fetch tasks ----
    sh_list,       \* the list object pl handed to both tasks
    sh_alive,      \* the pids that exist on the device during the tick
    sh_cpu_pc,     \* CPU task: "off", "scan", "remove", "done"
    sh_cpu_i,      \* CPU task: positions of the list its for loop has consumed
    sh_miss,       \* CPU task: miss_pid_list
    sh_mem_pc,     \* memory task: "off", "iter", "done"
    sh_mem_i,      \* memory task: positions of the list its for loop has consumed
    sh_seen,       \* memory task: the pids it has asked the device about
    sh_total,      \* memory task: total.total_pss, None until the first dump
    \* ---- a with-block over an adb proxy (base_adb.py __enter__ / __exit__) ----
    cl_kind,       \* class of the proxy: "AdbProxy" or "AdbProxyWithTools"
    cl_impl,       \* the transport under it: "PyAdb" or "PureAdb"
    cl_body,       \* commands the block is going to send
    cl_done,       \* commands of the block sent so far
    cl_pc,         \* "off", "body", "exit", "kill", "close", "left"
    cl_exc,        \* exception in flight: "none", "body", "kill", "close"
    cl_tool,       \* the tool app is running on the device
    cl_kills,      \* force-stop commands sent for the tool app
    cl_closes,     \* calls of the transport's close()
    \* ---- the tool-app check of AdbProxyWithTools (adb_with_tools.py) ----
    tl_installed,  \* per proxy instance: its device has the tool app installed
    tl_version,    \* AdbProxyWithTools.TOOLS_APP.version, one object for the class
    tl_log,        \* the calls made so far: [inst, op, result]
    \* ---- get_cpu_x_max_freq over several adb instances (cpu.py) ----
    fq_own,        \* per instance: its own __cpu_scaling_max_freq_enable, None while unset
    fq_log         \* the calls made so far: [inst, reads, result]

smpVars == <<s_pc, s_i, max_listen, min_wait, keep, dataCpu, dataMem, raw,
             task, cbLocal, flagAtCheck, lateTicks, flagReads>>
aggVars == <<ag_pc, ag_raw, ag_data>>
rateVars == <<rt_pc, rt_in, rt_out>>
reqVars == <<rq_pc, rq_op, rq_listen, rq_checking, rq_check, rq_is_error, rq_exc, rq_set,
             rq_resets, rq_closes, rq_closed, rq_onstart, rq_proxy0, dev_proxy,
             wh_settings, wh_active>>

nfVars == <<nf_pc, nf_listen, nf_started, nf_stops, nf_dels, nf_kills, nf_cat,
            nf_out, tool_perm, dev_stats, dev_log, dev_tool>>
recVars == <<rec_pc, rec_wait, rec_auto_delete, rec_started, rec_stops, rec_cmds,
             rec_calls, dev_cfg, dev_rec>>

pcuVars == <<pu_pc, pu_list0, pu_list, pu_auto, pu_stat, pu_idx, pu_total_u,
             pu_total_s, pu_miss, pu_reads, pu_out>>
snapVars == <<sn_pc, sn_in, sn_out>>
memVars == <<mm_pc, mm_mode, mm_tick, mm_alive, mm_list, mm_idx, mm_dumps,
             mm_total, mm_polls, mm_fields>>
quietVars == <<q_pc, q_kind, q_max, q_limit, q_script, q_i, q_log, q_exit,
               q_started, q_stops>>
shVars == <<sh_list, sh_alive, sh_cpu_pc, sh_cpu_i, sh_miss, sh_mem_pc,
            sh_mem_i, sh_seen, sh_total>>
clVars == <<cl_kind, cl_impl, cl_body, cl_done, cl_pc, cl_exc, cl_tool,
            cl_kills, cl_closes>>
tlVars == <<tl_installed, tl_version, tl_log>>
fqVars == <<fq_own, fq_log>>
vars == <<smpVars, aggVars, rateVars, reqVars, nfVars, recVars, pcuVars,
          snapVars, memVars, quietVars, shVars, clVars, tlVars, fqVars>>

notSmp == <<aggVars, rateVars, reqVars, nfVars, recVars, pcuVars, snapVars,
            memVars, quietVars, shVars, clVars, tlVars, fqVars>>
notAgg == <<smpVars, rateVars, reqVars, nfVars, recVars, pcuVars, snapVars,
            memVars, quietVars, shVars, clVars, tlVars, fqVars>>
notRate == <<smpVars, aggVars, reqVars, nfVars, recVars, pcuVars, snapVars,
             memVars, quietVars, shVars, clVars, tlVars, fqVars>>
notReq == <<smpVars, aggVars, rateVars, nfVars, recVars, pcuVars, snapVars,
            memVars, quietVars, shVars, clVars, tlVars, fqVars>>
notNf == <<smpVars, aggVars, rateVars, reqVars, recVars, pcuVars, snapVars,
           memVars, quietVars, shVars, clVars, tlVars, fqVars>>
notRec == <<smpVars, aggVars, rateVars, reqVars, nfVars, pcuVars, snapVars,
            memVars, quietVars, shVars, clVars, tlVars, fqVars>>
notPcu == <<smpVars, aggVars, rateVars, reqVars, nfVars, recVars, snapVars,
            memVars, quietVars, shVars, clVars, tlVars, fqVars>>
notSnap == <<smpVars, aggVars, rateVars, reqVars, nfVars, recVars, pcuVars,
             memVars, quietVars, shVars, clVars, tlVars, fqVars>>
notMem == <<smpVars, aggVars, rateVars, reqVars, nfVars, recVars, pcuVars,
            snapVars, quietVars, shVars, clVars, tlVars, fqVars>>
notQuiet == <<smpVars, aggVars, rateVars, reqVars, nfVars, recVars, pcuVars,
              snapVars, memVars, shVars, clVars, tlVars, fqVars>>
notSh == <<smpVars, aggVars, rateVars, reqVars, nfVars, recVars, pcuVars,
           snapVars, memVars, quietVars, clVars, tlVars, fqVars>>
notCl == <<smpVars, aggVars, rateVars, reqVars, nfVars, recVars, pcuVars,
           snapVars, memVars, quietVars, shVars, tlVars, fqVars>>
notTl == <<smpVars, aggVars, rateVars, reqVars, nfVars, recVars, pcuVars,
           snapVars, memVars, quietVars, shVars, clVars, fqVars>>
notFq == <<smpVars, aggVars, rateVars, reqVars, nfVars, recVars, pcuVars,
           snapVars, memVars, quietVars, shVars, clVars, tlVars>>

(***************************************************************************)
(* Bounds of the model.                                                    *)
(***************************************************************************)
MaxListen == 2      \* largest max_listen_seconds tried
MaxMinWait == 3     \* largest min_wait_seconds tried

\* ThreadPool(21)
PoolSize == 21

None == <<>>
Some(x) == <<x>>
IsNone(o) == o = <<>>
Val(o) == o[1]

(***************************************************************************)
(* cpu.py: the snapshot types.  freq is the ratio ct / mt of get_cpu_freq, *)
(* kept as the pair <<ct, mt>>.                                            *)
(***************************************************************************)
SysCPU(user, kernel, total, freq) ==
    [user |-> user, kernel |-> kernel, total |-> total, freq |-> freq]

AppCPU(user, kernel) == [user |-> user, kernel |-> kernel]

\* What the device answers to get_cpu_global and get_process(es)_cpu_usage
\* when the record with key k is fetched: the cumulative counters of
\* /proc/stat and /proc/<pid>/stat, k seconds into the run.
DeviceSys(k) ==
    SysCPU(100 + 50 * k, 50 + 20 * k, 1000 + 100 * k, IF k = 0 THEN <<10, 10>> ELSE <<9, 10>>)

DeviceApp(k) == AppCPU(10 + 5 * k, 5 + 4 * k)

\* total_pss of the MemoryInfo the device answers (in MB)
DeviceMem(k) == 50 + k

(***************************************************************************)
(* compute_cpu_rate.  The result is [ok, app, sys]: ok = FALSE stands for  *)
(* the ZeroDivisionError that `x * 1.0 / total_cpu` raises when total_cpu  *)
(* is 0; app and sys are then meaningless.                                 *)
(***************************************************************************)
RatMul(r, f) == <<r[1] * f[1], r[2] * f[2]>>

\* compute_cpu_rate normalising by the frequency ratio of the start snapshot
compute_cpu_rate_start_freq(ss, es, sa, ea, is_normalized) ==
    LET total_cpu == es.total - ss.total
        app == <<(ea.user - sa.user) + (ea.kernel - sa.kernel), total_cpu>>
        sys == <<(es.user - ss.user) + (es.kernel - ss.kernel), total_cpu>>
    IN IF is_normalized
       THEN [ok |-> TRUE, app |-> RatMul(app, ss.freq), sys |-> RatMul(sys, ss.freq)]
       ELSE [ok |-> TRUE, app |-> app, sys |-> sys]

\* lines 187-198, for total_cpu # 0
compute_cpu_rate_unchecked(ss, es, sa, ea, is_normalized) ==
    LET sys_u == es.user - ss.user
        sys_s == es.kernel - ss.kernel
        app_u == ea.user - sa.user
        app_s == ea.kernel - sa.kernel
        total_cpu == es.total - ss.total
        rs == [ok |-> TRUE, app |-> <<app_u + app_s, total_cpu>>,
               sys |-> <<sys_u + sys_s, total_cpu>>]
    IN IF is_normalized
       THEN [ok |-> TRUE, app |-> RatMul(rs.app, es.freq),
             sys |-> RatMul(rs.sys, es.freq)]
       ELSE rs

compute_cpu_rate(ss, es, sa, ea, is_normalized) ==
    LET total_cpu == es.total - ss.total
    IN IF total_cpu = 0
       THEN [ok |-> FALSE, app |-> <<0, 1>>, sys |-> <<0, 1>>]
       ELSE compute_cpu_rate_unchecked(ss, es, sa, ea, is_normalized)

(***************************************************************************)
(* The aggregator.                                                         *)
(***************************************************************************)
EmptyRecord == [cpu_g |-> None, cpu_a |-> None, memory |-> None]

\* _check_cpu_memory_data: no field of the record is None
check_cpu_memory_data(d) ==
    ~IsNone(d.cpu_g) /\ ~IsNone(d.cpu_a) /\ ~IsNone(d.memory)

\* sorted(raw_data.items(), key=lambda x: x[0]) as the sequence of the keys
RECURSIVE SortedKeys(_)
SortedKeys(S) ==
    IF S = {} THEN <<>>
    ELSE LET m == CHOOSE x \in S : \A y \in S : x <= y
         IN <<m>> \o SortedKeys(S \ {m})

\* The loop of _compute_cpu_memory from position idx (1-based here) on, over
\* the sorted keys ks.  acc is [ok, cpu, mem]; an entry of cpu is
\* [v |-> rate, a |-> key of the start record, b |-> key of the end record],
\* an entry of mem is [v |-> total_pss, b |-> key]: a and b are history.
RECURSIVE ComputeFrom(_, _, _, _)
ComputeFrom(rd, ks, idx, acc) ==
    IF idx > Len(ks) \/ ~acc.ok THEN acc
    ELSE LET f_d == rd[ks[idx - 1]]
             d == rd[ks[idx]]
         IN IF ~check_cpu_memory_data(f_d) \/ ~check_cpu_memory_data(d)
            THEN ComputeFrom(rd, ks, idx + 1, acc)
            ELSE LET r == compute_cpu_rate(Val(f_d.cpu_g), Val(d.cpu_g),
                                           Val(f_d.cpu_a), Val(d.cpu_a), TRUE)
                 IN IF ~r.ok
                    THEN [acc EXCEPT !.ok = FALSE]
                    ELSE ComputeFrom(rd, ks, idx + 1,
                           [ok |-> TRUE,
                            cpu |-> Append(acc.cpu,
                                      [v |-> r.app, a |-> ks[idx - 1], b |-> ks[idx]]),
                            mem |-> Append(acc.mem,
                                      [v |-> Val(d.memory), b |-> ks[idx]])])

\* _compute_cpu_memory(raw_data, data): the two lists, or ok = FALSE when
\* compute_cpu_rate raised
compute_cpu_memory(rd) ==
    ComputeFrom(rd, SortedKeys(DOMAIN rd), 2, [ok |-> TRUE, cpu |-> <<>>, mem |-> <<>>])

(***************************************************************************)
(* The pool.  A request is [k, i]: the kind of task and the tick.          *)
(***************************************************************************)
Ticks == 0 .. (MaxListen - 1)
Kinds == {"work", "cpu", "mem", "cb"}
Req(k, i) == <<k, i>>
Reqs == Kinds \X Ticks

Finished == {"done", "raised", "skipped"}
IsRunning(st) == st \notin ({"none", "queued"} \cup Finished)

\* a worker thread of ThreadPool(21) is free to take a queued request
ThreadFree == Cardinality({r \in Reqs : IsRunning(task[r])}) < PoolSize

\* a wait that covers only the requests the control thread put itself
PoolDrained_LoopRequestsOnly ==
    \A i \in 0 .. (MaxListen - 1) : task[<<"work", i>>] \in {"none", "done", "raised", "skipped"}

\* ThreadPool.wait(): every request put so far has been processed
PoolDrained == \A r \in Reqs : task[r] \in ({"none"} \cup Finished)

(***************************************************************************)
(* Initial states of the sampler.                                          *)
(*                                                                         *)
(* start_test_cpu_memory builds tmp_data with `'cpu_a': AppCPU(0, 0, 0)`   *)
(* (line 174), and AppCPU inherits CPUUsageBase.__init__(self, user,       *)
(* kernel): the call as written ends there with a TypeError                *)
(* (StartTestCpuMemory below).  The loop and the pool tasks are modelled   *)
(* from the state the comment on lines 175-176 describes (the system       *)
(* counters before the app starts, the app's CPU time 0), which is also    *)
(* the tmp_data a driver of _work_on_cpu_memory hands in: s_pc = "check".  *)
(***************************************************************************)
\* CPUUsageBase.__init__(self, user, kernel): positional arguments after self
CPUUsageBaseArgs == 2

\* the arguments of AppCPU(0, 0, 0) on line 174
BaselineAppArgs == <<0, 0, 0>>

BaselineRecord(g) == [cpu_g |-> Some(g), cpu_a |-> Some(AppCPU(0, 0)), memory |-> Some(0)]

SmpStart(pc) ==
    /\ s_pc = pc /\ s_i = 0
    /\ keep = TRUE /\ dataCpu = <<>> /\ dataMem = <<>>
    /\ raw = (0 :> BaselineRecord(DeviceSys(0)))
    /\ task = [r \in Reqs |-> "none"]
    /\ cbLocal = [i \in Ticks |-> [cpu |-> <<>>, mem |-> <<>>]]
    /\ flagAtCheck = TRUE /\ lateTicks = 0 /\ flagReads = 0

SmpOff == SmpStart("off") /\ max_listen = 0 /\ min_wait = 0

SmpInit ==
    /\ \E pc \in {"call", "check"} : SmpStart(pc)
    /\ max_listen \in 0 .. MaxListen
    /\ min_wait \in {0, MaxMinWait}

\* start_test_cpu_memory up to line 178, as written
StartTestCpuMemory ==
    /\ s_pc = "call"
    /\ Len(BaselineAppArgs) # CPUUsageBaseArgs
    /\ s_pc' = "raised"
    /\ UNCHANGED <<s_i, max_listen, min_wait, keep, dataCpu, dataMem, raw, task,
                   cbLocal, flagAtCheck, lateTicks, flagReads>>
    /\ UNCHANGED notSmp

(***************************************************************************)
(* The control thread: the loop of start_test_cpu_memory.                  *)
(***************************************************************************)
\* `for i in range(max_listen_seconds)` is exhausted: on to the final drain
LoopExhausted ==
    /\ s_pc = "check" /\ s_i >= max_listen
    /\ s_pc' = "wait"
    /\ UNCHANGED <<s_i, max_listen, min_wait, keep, dataCpu, dataMem, raw, task,
                   cbLocal, flagAtCheck, lateTicks, flagReads>>
    /\ UNCHANGED notSmp

\* a loop that reads the flag and goes on whatever it reads
LoopCheck_NoBreak ==
    /\ s_pc = "check" /\ s_i < max_listen
    /\ flagReads' = flagReads + 1
    /\ flagAtCheck' = keep
    /\ s_pc' = "sleep"
    /\ UNCHANGED <<s_i, max_listen, min_wait, keep, dataCpu, dataMem, raw, task,
                   cbLocal, lateTicks>>
    /\ UNCHANGED notSmp

\* `if not data['keep']: break`
LoopCheck ==
    /\ s_pc = "check" /\ s_i < max_listen
    /\ flagReads' = flagReads + 1
    /\ flagAtCheck' = keep
    /\ s_pc' = IF keep THEN "sleep" ELSE "wait"
    /\ UNCHANGED <<s_i, max_listen, min_wait, keep, dataCpu, dataMem, raw, task,
                   cbLocal, lateTicks>>
    /\ UNCHANGED notSmp

\* time.sleep(1); putRequest(WorkRequest(self._work_on_cpu_memory, (.., i, ..)))
Dispatch ==
    /\ s_pc = "sleep"
    /\ task' = [task EXCEPT ![Req("work", s_i)] = "queued"]
    /\ lateTicks' = IF keep THEN lateTicks ELSE lateTicks + 1
    /\ s_i' = s_i + 1
    /\ s_pc' = "check"
    /\ UNCHANGED <<max_listen, min_wait, keep, dataCpu, dataMem, raw, cbLocal,
                   flagAtCheck, flagReads>>
    /\ UNCHANGED notSmp

\* self._th_pool.wait(); return data
WaitReturn ==
    /\ s_pc = "wait"
    /\ PoolDrained
    /\ s_pc' = "returned"
    /\ UNCHANGED <<s_i, max_listen, min_wait, keep, dataCpu, dataMem, raw, task,
                   cbLocal, flagAtCheck, lateTicks, flagReads>>
    /\ UNCHANGED notSmp

(***************************************************************************)
(* The pool tasks.                                                         *)
(***************************************************************************)
\* _work_on_cpu_memory: tmp_data[idx + 1] = idx_data, then the three
\* putRequest calls.  One step: until its fields are written the new record
\* reads the same to every other task, queued or not.
WorkOnCpuMemory(i) ==
    /\ task[Req("work", i)] = "queued"
    /\ ThreadFree
    /\ raw' = [k \in DOMAIN raw \cup {i + 1} |-> IF k = i + 1 THEN EmptyRecord ELSE raw[k]]
    /\ task' = [task EXCEPT ![Req("work", i)] = "done",
                            ![Req("cpu", i)] = "queued",
                            ![Req("mem", i)] = "queued",
                            ![Req("cb", i)] = "queued"]
    /\ UNCHANGED <<s_pc, s_i, max_listen, min_wait, keep, dataCpu, dataMem,
                   cbLocal, flagAtCheck, lateTicks, flagReads>>
    /\ UNCHANGED notSmp

\* a CPU fetch that writes into the newest record of tmp_data rather than
\* into the record it was handed
CpuWrite_into_latest(i) ==
    /\ task[Req("cpu", i)] = "queued"
    /\ ThreadFree
    /\ LET newest == CHOOSE k \in DOMAIN raw : \A j \in DOMAIN raw : j <= k
       IN raw' = [raw EXCEPT ![newest].cpu_g = Some(DeviceSys(i + 1)),
                             ![newest].cpu_a = Some(DeviceApp(i + 1))]
    /\ task' = [task EXCEPT ![Req("cpu", i)] = "done"]
    /\ UNCHANGED <<s_pc, s_i, max_listen, min_wait, keep, dataCpu, dataMem,
                   cbLocal, flagAtCheck, lateTicks, flagReads>>
    /\ UNCHANGED notSmp

\* _async_run_get_cpu: get_cpu_usage returns; rs['cpu_g'] = curr_g;
\* rs['cpu_a'] = curr_a.  One step: a record with one of the two written
\* is as incomplete to its readers as one with neither.
CpuWrite(i) ==
    /\ task[Req("cpu", i)] = "queued"
    /\ ThreadFree
    /\ raw' = [raw EXCEPT ![i + 1].cpu_g = Some(DeviceSys(i + 1)),
                          ![i + 1].cpu_a = Some(DeviceApp(i + 1))]
    /\ task' = [task EXCEPT ![Req("cpu", i)] = "done"]
    /\ UNCHANGED <<s_pc, s_i, max_listen, min_wait, keep, dataCpu, dataMem,
                   cbLocal, flagAtCheck, lateTicks, flagReads>>
    /\ UNCHANGED notSmp

\* A fetch task that leaves its record incomplete for good:
\* _async_run_get_memory when get_memory_usage raises, or returns None
\* (every process gone) and rs['memory'] = None.  (A CPU fetch that raises
\* leaves the record incomplete in the same way and is not modelled apart.)
MemNone(i) ==
    /\ task[Req("mem", i)] = "queued"
    /\ ThreadFree
    /\ task' = [task EXCEPT ![Req("mem", i)] = "raised"]
    /\ UNCHANGED <<s_pc, s_i, max_listen, min_wait, keep, dataCpu, dataMem, raw,
                   cbLocal, flagAtCheck, lateTicks, flagReads>>
    /\ UNCHANGED notSmp

\* a memory fetch that writes into the record before its own
MemWrite_into_previous(i) ==
    /\ task[Req("mem", i)] = "queued"
    /\ ThreadFree
    /\ LET previous == IF i \in DOMAIN raw THEN i ELSE 0
       IN raw' = [raw EXCEPT ![previous].memory = Some(DeviceMem(i + 1))]
    /\ task' = [task EXCEPT ![Req("mem", i)] = "done"]
    /\ UNCHANGED <<s_pc, s_i, max_listen, min_wait, keep, dataCpu, dataMem,
                   cbLocal, flagAtCheck, lateTicks, flagReads>>
    /\ UNCHANGED notSmp

\* _async_run_get_memory: rs['memory'] = memory
MemWrite(i) ==
    /\ task[Req("mem", i)] = "queued"
    /\ ThreadFree
    /\ raw' = [raw EXCEPT ![i + 1].memory = Some(DeviceMem(i + 1))]
    /\ task' = [task EXCEPT ![Req("mem", i)] = "done"]
    /\ UNCHANGED <<s_pc, s_i, max_listen, min_wait, keep, dataCpu, dataMem,
                   cbLocal, flagAtCheck, lateTicks, flagReads>>
    /\ UNCHANGED notSmp

\* _async_on_test_cpu_memory: `if len(raw_data) < min_wait_seconds: return`
too_early(rd, mw) == Cardinality(DOMAIN rd) < mw

CbSkip(i) ==
    /\ task[Req("cb", i)] = "queued"
    /\ ThreadFree
    /\ too_early(raw, min_wait)
    /\ task' = [task EXCEPT ![Req("cb", i)] = "skipped"]
    /\ UNCHANGED <<s_pc, s_i, max_listen, min_wait, keep, dataCpu, dataMem, raw,
                   cbLocal, flagAtCheck, lateTicks, flagReads>>
    /\ UNCHANGED notSmp

\* _compute_cpu_memory up to the end of its loop; compute_cpu_rate raising
\* ZeroDivisionError ends the task
CbCompute(i) ==
    /\ task[Req("cb", i)] = "queued"
    /\ ThreadFree
    /\ ~too_early(raw, min_wait)
    /\ LET c == compute_cpu_memory(raw)
       IN IF c.ok
          THEN /\ cbLocal' = [cbLocal EXCEPT ![i] = [cpu |-> c.cpu, mem |-> c.mem]]
               /\ task' = [task EXCEPT ![Req("cb", i)] = "computed"]
          ELSE /\ task' = [task EXCEPT ![Req("cb", i)] = "raised"]
               /\ UNCHANGED cbLocal
    /\ UNCHANGED <<s_pc, s_i, max_listen, min_wait, keep, dataCpu, dataMem, raw,
                   flagAtCheck, lateTicks, flagReads>>
    /\ UNCHANGED notSmp

\* data['cpu'] = cpu_list
CbWriteCpu(i) ==
    /\ task[Req("cb", i)] = "computed"
    /\ dataCpu' = cbLocal[i].cpu
    /\ cbLocal' = [cbLocal EXCEPT ![i].cpu = <<>>]
    /\ task' = [task EXCEPT ![Req("cb", i)] = "wrote_cpu"]
    /\ UNCHANGED <<s_pc, s_i, max_listen, min_wait, keep, dataMem, raw,
                   flagAtCheck, lateTicks, flagReads>>
    /\ UNCHANGED notSmp

\* data['memory'] = memory_list; return data; then
\* self.on_test_cpu_memory(current_second, max_listen_seconds, data): the
\* caller's callback, which may set data['keep'] = False
CbWriteMemInvoke(i) ==
    /\ task[Req("cb", i)] = "wrote_cpu"
    /\ dataMem' = cbLocal[i].mem
    /\ \E stop \in BOOLEAN : keep' = IF stop THEN FALSE ELSE keep
    /\ cbLocal' = [cbLocal EXCEPT ![i] = [cpu |-> <<>>, mem |-> <<>>]]
    /\ task' = [task EXCEPT ![Req("cb", i)] = "done"]
    /\ UNCHANGED <<s_pc, s_i, max_listen, min_wait, dataCpu, raw,
                   flagAtCheck, lateTicks, flagReads>>
    /\ UNCHANGED notSmp

SmpNext ==
    \/ StartTestCpuMemory
    \/ LoopExhausted \/ LoopCheck \/ Dispatch \/ WaitReturn
    \/ \E i \in Ticks :
         \/ WorkOnCpuMemory(i)
         \/ CpuWrite(i)
         \/ MemNone(i) \/ MemWrite(i)
         \/ CbSkip(i) \/ CbCompute(i) \/ CbWriteCpu(i) \/ CbWriteMemInvoke(i)

(***************************************************************************)
(* _compute_cpu_memory applied to a raw_data drawn from a bounded set: the *)
(* baseline record and any records with keys 1 .. AggMaxKey, each as far   *)
(* filled as its fetch tasks may have left it.                             *)
(***************************************************************************)
AggMaxKey == 2

\* a record as _async_run_get_cpu and _async_run_get_memory may have left it;
\* the system counters are those of one of two instants
AggRecords ==
    { [cpu_g |-> g, cpu_a |-> a, memory |-> m] :
        g \in {None, Some(DeviceSys(0)), Some(DeviceSys(1))},
        a \in {None, Some(DeviceApp(1))},
        m \in {None, Some(DeviceMem(1))} }

AggRawData ==
    UNION { { [k \in K \cup {0} |-> IF k = 0 THEN BaselineRecord(DeviceSys(0)) ELSE f[k]] :
                f \in [K -> AggRecords] } : K \in SUBSET (1 .. AggMaxKey) }

AggOff == ag_pc = "off" /\ ag_raw = (0 :> EmptyRecord) /\ ag_data = [cpu |-> <<>>, mem |-> <<>>]

AggInit ==
    /\ ag_pc = "input"
    /\ ag_raw \in AggRawData
    /\ ag_data = [cpu |-> <<>>, mem |-> <<>>]

\* _compute_cpu_memory(raw_data, data) returns data
AggReturn ==
    /\ ag_pc = "input"
    /\ LET c == compute_cpu_memory(ag_raw)
       IN /\ c.ok
          /\ ag_data' = [cpu |-> c.cpu, mem |-> c.mem]
    /\ ag_pc' = "returned"
    /\ UNCHANGED ag_raw
    /\ UNCHANGED notAgg

\* _compute_cpu_memory(raw_data, data) raises what compute_cpu_rate raised
AggRaise ==
    /\ ag_pc = "input"
    /\ ~compute_cpu_memory(ag_raw).ok
    /\ ag_pc' = "raised"
    /\ UNCHANGED <<ag_raw, ag_data>>
    /\ UNCHANGED notAgg

AggNext == AggReturn \/ AggRaise

(***************************************************************************)
(* compute_cpu_rate applied to arguments drawn from a bounded set.         *)
(***************************************************************************)
MaxSnap == 2

RateSys == { DeviceSys(k) : k \in 0 .. MaxSnap }
RateApp == { DeviceApp(k) : k \in 0 .. MaxSnap }

RateOff == rt_pc = "off" /\ rt_in = <<>> /\ rt_out = <<>>

RateInit ==
    /\ rt_pc = "input"
    /\ \E ss \in RateSys, es \in RateSys, sa \in RateApp, ea \in RateApp, n \in BOOLEAN :
          rt_in = <<[ss |-> ss, es |-> es, sa |-> sa, ea |-> ea, norm |-> n]>>
    /\ rt_out = <<>>

RateResult == compute_cpu_rate(rt_in[1].ss, rt_in[1].es, rt_in[1].sa, rt_in[1].ea, rt_in[1].norm)

\* compute_cpu_rate returns rs
RateReturn ==
    /\ rt_pc = "input"
    /\ RateResult.ok
    /\ rt_out' = <<[app |-> RateResult.app, sys |-> RateResult.sys]>>
    /\ rt_pc' = "returned"
    /\ UNCHANGED rt_in
    /\ UNCHANGED notRate

\* compute_cpu_rate raises ZeroDivisionError
RateRaise ==
    /\ rt_pc = "input"
    /\ ~RateResult.ok
    /\ rt_pc' = "raised"
    /\ UNCHANGED <<rt_in, rt_out>>
    /\ UNCHANGED notRate

RateNext == RateReturn \/ RateRaise

(***************************************************************************)
(* perf_helper.py, AndroidPerfBaseHelperWithWhistle: the HTTP request      *)
(* capture session.  A whistle request answers 200 ("ok"), answers with    *)
(* another status that urlopen returns ("rejected": _call_proxy_request    *)
(* returns (False, body), which no caller looks at), or raises.  A shell   *)
(* command to the device is accepted or raises ('Permission denial' or a   *)
(* transport error).                                                       *)
(***************************************************************************)
MaxReqListen == 1   \* largest listen_seconds tried

ReqListenValues == {-6, -1} \cup (0 .. MaxReqListen)

WhistleAddress == "whistle:8899"
ProxyValues == {":0", "corp:8080"}
WhistleOutcomes == {"ok", "rejected", "raises"}

ReqStart(pc) ==
    /\ rq_pc = pc /\ rq_op = "start" /\ rq_check = "none"
    /\ rq_is_error = FALSE /\ rq_exc = "none" /\ rq_set = FALSE
    /\ rq_resets = 0 /\ rq_closes = 0 /\ rq_closed = FALSE /\ rq_onstart = 0
    /\ wh_settings = "" /\ wh_active = FALSE

ReqOff ==
    /\ ReqStart("off")
    /\ rq_listen = 0 /\ rq_checking = FALSE
    /\ rq_proxy0 = ":0" /\ dev_proxy = ":0"

ReqInit ==
    /\ ReqStart("call")
    /\ rq_listen \in ReqListenValues
    /\ rq_checking \in BOOLEAN
    /\ rq_proxy0 \in ProxyValues
    /\ dev_proxy = rq_proxy0

\* a quiescence check whose result is not looked at
check_before_start_ignored ==
    /\ rq_pc = "call"
    /\ \E r \in {"true", "false", "raises"} :
          /\ rq_check' = IF rq_checking THEN r ELSE "skipped"
          /\ rq_pc' = IF rq_checking /\ r = "raises" THEN "raised" ELSE "set_proxy"
          /\ rq_exc' = IF rq_checking /\ r = "raises" THEN "precheck" ELSE rq_exc
    /\ UNCHANGED <<rq_op, rq_listen, rq_checking, rq_is_error, rq_set, rq_resets,
                   rq_closes, rq_closed, rq_onstart, rq_proxy0, dev_proxy,
                   wh_settings, wh_active>>
    /\ UNCHANGED notReq

\* lines 375-379: the optional quiescence check, by its result
check_before_start ==
    /\ rq_pc = "call"
    /\ \E r \in {"true", "false", "raises"} :
          /\ rq_check' = IF rq_checking THEN r ELSE "skipped"
          /\ rq_pc' = IF ~rq_checking \/ r = "true" THEN "set_proxy"
                      ELSE IF r = "false" THEN "returned" ELSE "raised"
          /\ rq_exc' = IF rq_checking /\ r = "raises" THEN "precheck" ELSE rq_exc
    /\ UNCHANGED <<rq_op, rq_listen, rq_checking, rq_is_error, rq_set, rq_resets,
                   rq_closes, rq_closed, rq_onstart, rq_proxy0, dev_proxy,
                   wh_settings, wh_active>>
    /\ UNCHANGED notReq

\* line 382, before the try block
set_http_proxy ==
    /\ rq_pc = "set_proxy"
    /\ \E accepted \in BOOLEAN :
          IF accepted
          THEN /\ dev_proxy' = WhistleAddress /\ rq_set' = TRUE
               /\ rq_pc' = "update" /\ UNCHANGED rq_exc
          ELSE /\ rq_pc' = "raised" /\ rq_exc' = "proxy"
               /\ UNCHANGED <<dev_proxy, rq_set>>
    /\ UNCHANGED <<rq_check, rq_op, rq_listen, rq_checking, rq_is_error, rq_resets,
                   rq_closes, rq_closed, rq_onstart, rq_proxy0, wh_settings, wh_active>>
    /\ UNCHANGED notReq

\* lines 385-390
update_statistics_settings ==
    /\ rq_pc = "update"
    /\ \E o \in WhistleOutcomes :
          /\ wh_settings' = IF o = "ok" THEN "uploadArgs" ELSE wh_settings
          /\ rq_pc' = IF o = "raises" THEN "except" ELSE "activate"
    /\ UNCHANGED <<rq_check, rq_op, rq_listen, rq_checking, rq_is_error, rq_exc, rq_set,
                   rq_resets, rq_closes, rq_closed, rq_onstart, rq_proxy0,
                   dev_proxy, wh_active>>
    /\ UNCHANGED notReq

\* line 391
active_statistics_status ==
    /\ rq_pc = "activate"
    /\ \E o \in WhistleOutcomes :
          /\ wh_active' = IF o = "ok" THEN TRUE ELSE wh_active
          /\ rq_pc' = IF o = "raises" THEN "except" ELSE "on_start"
    /\ UNCHANGED <<rq_check, rq_op, rq_listen, rq_checking, rq_is_error, rq_exc, rq_set,
                   rq_resets, rq_closes, rq_closed, rq_onstart, rq_proxy0,
                   dev_proxy, wh_settings>>
    /\ UNCHANGED notReq

\* line 392
on_start_test_req_count ==
    /\ rq_pc = "on_start"
    /\ rq_onstart' = rq_onstart + 1
    /\ \E raises \in BOOLEAN :
          rq_pc' = IF raises THEN "except"
                   ELSE IF rq_listen # 0 THEN "sleep" ELSE "finally"
    /\ UNCHANGED <<rq_check, rq_op, rq_listen, rq_checking, rq_is_error, rq_exc, rq_set,
                   rq_resets, rq_closes, rq_closed, rq_proxy0, dev_proxy,
                   wh_settings, wh_active>>
    /\ UNCHANGED notReq

\* lines 393-394: time.sleep raises ValueError on a negative argument, and
\* the wait can be interrupted
timed_wait ==
    /\ rq_pc = "sleep"
    /\ \E interrupted \in BOOLEAN :
          rq_pc' = IF rq_listen + 5 < 0 \/ interrupted THEN "except" ELSE "finally"
    /\ UNCHANGED <<rq_check, rq_op, rq_listen, rq_checking, rq_is_error, rq_exc, rq_set,
                   rq_resets, rq_closes, rq_closed, rq_onstart, rq_proxy0,
                   dev_proxy, wh_settings, wh_active>>
    /\ UNCHANGED notReq

\* lines 395-398
except_reraise ==
    /\ rq_pc = "except"
    /\ rq_is_error' = TRUE
    /\ rq_exc' = "session"
    /\ rq_pc' = "finally"
    /\ UNCHANGED <<rq_check, rq_op, rq_listen, rq_checking, rq_set, rq_resets, rq_closes,
                   rq_closed, rq_onstart, rq_proxy0, dev_proxy, wh_settings, wh_active>>
    /\ UNCHANGED notReq

\* a teardown that only the timed mode triggers
needs_reset_timed_only(is_error, listen_seconds) == listen_seconds # 0

\* line 400: `if is_error or listen_seconds`
needs_reset(is_error, listen_seconds) == is_error \/ listen_seconds # 0

\* lines 399-402
finally_clause ==
    /\ rq_pc = "finally"
    /\ IF needs_reset(rq_is_error, rq_listen)
       THEN rq_pc' = "reset_update" /\ rq_resets' = rq_resets + 1
       ELSE /\ rq_pc' = IF rq_exc = "none" THEN "returned" ELSE "raised"
            /\ UNCHANGED rq_resets
    /\ UNCHANGED <<rq_check, rq_op, rq_listen, rq_checking, rq_is_error, rq_exc, rq_set,
                   rq_closes, rq_closed, rq_onstart, rq_proxy0, dev_proxy,
                   wh_settings, wh_active>>
    /\ UNCHANGED notReq

\* a settings reset without the try/finally around it: its exception
\* leaves the teardown at once
reset_whistle_server_unguarded ==
    /\ rq_pc = "reset_update"
    /\ \E o \in WhistleOutcomes :
          /\ wh_settings' = IF o = "ok" THEN "" ELSE wh_settings
          /\ rq_exc' = IF o = "raises" THEN "teardown" ELSE rq_exc
          /\ rq_pc' = IF o = "raises" THEN "raised" ELSE "reset_close"
    /\ UNCHANGED <<rq_check, rq_op, rq_listen, rq_checking, rq_is_error, rq_set, rq_resets,
                   rq_closes, rq_closed, rq_onstart, rq_proxy0, dev_proxy, wh_active>>
    /\ UNCHANGED notReq

\* lines 412-413: update_statistics_settings(self.whistle_address, '')
reset_whistle_server ==
    /\ rq_pc = "reset_update"
    /\ \E o \in WhistleOutcomes :
          /\ wh_settings' = IF o = "ok" THEN "" ELSE wh_settings
          /\ rq_exc' = IF o = "raises" THEN "teardown" ELSE rq_exc
    /\ rq_pc' = "reset_close"
    /\ UNCHANGED <<rq_check, rq_op, rq_listen, rq_checking, rq_is_error, rq_set, rq_resets,
                   rq_closes, rq_closed, rq_onstart, rq_proxy0, dev_proxy, wh_active>>
    /\ UNCHANGED notReq

\* a teardown that puts back the proxy the device had before the session
close_http_proxy_restoring ==
    /\ rq_pc = "reset_close"
    /\ rq_closes' = rq_closes + 1
    /\ \E accepted \in BOOLEAN :
          /\ dev_proxy' = IF accepted THEN rq_proxy0 ELSE dev_proxy
          /\ rq_closed' = accepted
          /\ rq_exc' = IF accepted THEN rq_exc ELSE "teardown"
    /\ rq_pc' = IF rq_exc' = "none" THEN "returned" ELSE "raised"
    /\ UNCHANGED <<rq_check, rq_op, rq_listen, rq_checking, rq_is_error, rq_set, rq_resets,
                   rq_onstart, rq_proxy0, wh_settings, wh_active>>
    /\ UNCHANGED notReq

\* lines 414-416 and base_adb.py close_http_proxy: set_http_proxy(':0')
close_http_proxy ==
    /\ rq_pc = "reset_close"
    /\ rq_closes' = rq_closes + 1
    /\ \E accepted \in BOOLEAN :
          /\ dev_proxy' = IF accepted THEN ":0" ELSE dev_proxy
          /\ rq_closed' = accepted
          /\ rq_exc' = IF accepted THEN rq_exc ELSE "teardown"
    /\ rq_pc' = IF rq_exc' = "none" THEN "returned" ELSE "raised"
    /\ UNCHANGED <<rq_check, rq_op, rq_listen, rq_checking, rq_is_error, rq_set, rq_resets,
                   rq_onstart, rq_proxy0, wh_settings, wh_active>>
    /\ UNCHANGED notReq

\* lines 404-408, called after a session that left the proxy set
stop_test_req_count ==
    /\ rq_pc = "returned" /\ rq_op = "start"
    /\ rq_set /\ rq_resets = 0
    /\ rq_op' = "stop"
    /\ \E o \in WhistleOutcomes :
          /\ wh_active' = IF o = "ok" THEN FALSE ELSE wh_active
          /\ rq_exc' = IF o = "raises" THEN "session" ELSE rq_exc
    /\ rq_resets' = rq_resets + 1
    /\ rq_pc' = "reset_update"
    /\ UNCHANGED <<rq_check, rq_listen, rq_checking, rq_is_error, rq_set, rq_closes,
                   rq_closed, rq_onstart, rq_proxy0, dev_proxy, wh_settings>>
    /\ UNCHANGED notReq

ReqNext ==
    \/ check_before_start
    \/ set_http_proxy
    \/ update_statistics_settings
    \/ active_statistics_status
    \/ on_start_test_req_count
    \/ timed_wait
    \/ except_reraise
    \/ finally_clause
    \/ reset_whistle_server
    \/ close_http_proxy
    \/ stop_test_req_count

\* C1: when start_test_req_count raises after set_http_proxy succeeded,
\* reset_whistle_server_and_close_device_http_proxy has run exactly once
\* and has sent the close command exactly once, and the device proxy is
\* cleared if the device accepted that command.
C1_ResetOnceOnException ==
    (rq_op = "start" /\ rq_pc = "raised" /\ rq_set) =>
        /\ rq_resets = 1
        /\ rq_closes = 1
        /\ rq_closed => dev_proxy = ":0"

C1_Witness ==
    /\ rq_op = "start" /\ rq_pc = "raised" /\ rq_set
    /\ rq_listen = 0 /\ rq_is_error /\ rq_exc = "session"
    /\ rq_resets = 1 /\ dev_proxy = ":0"

\* the settings request has returned without raising and without the
\* plugin taking the settings: _call_proxy_request returned (False, body)
SettingsRejected ==
    rq_op = "start" /\ rq_pc \in {"activate", "on_start"} /\ wh_settings # "uploadArgs"

\* the activation request has returned (False, body)
ActivationRejected == rq_op = "start" /\ rq_pc = "on_start" /\ ~wh_active

\* C22: a rejected settings update or activation request aborts the
\* session start: start_test_req_count never goes on after a rejected
\* request, so on_start_test_req_count is never about to be invoked with
\* the settings not taken or the plugin not active.
C22_RejectionAbortsStart == ~SettingsRejected /\ ~ActivationRejected

\* C23: when the session of start_test_req_count raised an exception and
\* the teardown fails as well, the exception that reaches the caller is the
\* session's: whenever the function has raised with is_error set, the
\* exception in flight is the one the except clause re-raised.
C23_TeardownNeverMasks ==
    (rq_op = "start" /\ rq_is_error /\ rq_pc = "raised") => rq_exc = "session"

\* the teardown has run to its end and the device took the close command
TornDown == rq_pc \in {"returned", "raised"} /\ rq_closes > 0 /\ rq_closed

\* C24: after a session that ended through its teardown, or after
\* stop_test_req_count, the device proxy is what it was before the session.
C24_ProxyRestored == TornDown => dev_proxy = rq_proxy0

\* C24, amended: after the teardown the device proxy is cleared (':0'),
\* whatever it was before the session; the close command was sent once.
C24_ProxyCleared == TornDown => dev_proxy = ":0" /\ rq_closes = 1

C24_Witness ==
    /\ TornDown /\ rq_op = "stop"
    /\ rq_proxy0 = "corp:8080" /\ dev_proxy = ":0"

\* start_test_req_count has set the device proxy and has left, by return
\* or by exception
StartLeft == rq_op = "start" /\ rq_set /\ rq_pc \in {"returned", "raised"}

\* C34: start_test_req_count has torn the session down when it leaves if
\* and only if listen_seconds is greater than 0 or an exception occurred;
\* with listen_seconds not greater than 0 and no exception it returns with
\* the device proxy still set and no teardown run.
C34_TeardownIffTimedOrError ==
    StartLeft =>
        /\ rq_resets = 1 <=> (rq_listen > 0 \/ rq_is_error)
        /\ (rq_listen <= 0 /\ ~rq_is_error) =>
              /\ rq_pc = "returned"
              /\ rq_resets = 0 /\ rq_closes = 0
              /\ dev_proxy = WhistleAddress

\* C35: when the pre-start quiescence check of start_test_req_count fails,
\* the function returns, and the device proxy is not set, the whistle
\* server is not contacted and on_start_test_req_count is not invoked.
C35_FailedCheckTouchesNothing ==
    (rq_op = "start" /\ rq_check = "false") =>
        /\ rq_pc = "returned" /\ rq_exc = "none"
        /\ ~rq_set /\ dev_proxy = rq_proxy0
        /\ wh_settings = "" /\ ~wh_active
        /\ rq_onstart = 0 /\ rq_resets = 0 /\ rq_closes = 0

C35_Witness ==
    /\ rq_op = "start" /\ rq_checking /\ rq_check = "false"
    /\ rq_pc = "returned" /\ rq_listen = 1
    /\ rq_proxy0 = "corp:8080" /\ dev_proxy = "corp:8080"

\* C36: stop_test_req_count and
\* reset_whistle_server_and_close_device_http_proxy always attempt to clear
\* the device proxy: once a teardown has been entered and the call has
\* left, by return or by exception, close_http_proxy has been called
\* exactly once, also when the deactivation request or the settings reset
\* raised; it is never called twice.
C36_CloseAlwaysAttempted ==
    /\ rq_closes <= 1
    /\ (rq_resets > 0 /\ rq_pc \in {"returned", "raised"}) => rq_closes = 1
    /\ (rq_op = "stop" /\ rq_pc \in {"returned", "raised"}) => rq_resets = 1

C36_Witness ==
    /\ rq_op = "stop" /\ rq_pc = "raised"
    /\ rq_exc = "teardown" /\ wh_active /\ wh_settings = "uploadArgs"
    /\ rq_closes = 1 /\ rq_closed /\ dev_proxy = ":0"

(***************************************************************************)
(* perf_helper.py start_test_netflow with adb_with_tools.py                *)
(* AdbProxyWithTrafficStatistics: the traffic logging session.             *)
(***************************************************************************)
MaxNfListen == 2    \* largest listen_seconds tried
MaxLogLines == 2    \* most lines the tool writes to its log during a session

NfListenValues == {-1} \cup (0 .. MaxNfListen)

NfStart(pc) ==
    /\ nf_pc = pc /\ nf_started = FALSE
    /\ nf_stops = 0 /\ nf_dels = 0 /\ nf_kills = 0
    /\ nf_cat = None /\ nf_out = -1
    /\ dev_stats = FALSE

NfOff ==
    /\ NfStart("off")
    /\ nf_listen = 0 /\ tool_perm = FALSE /\ dev_log = None /\ dev_tool = FALSE

NfInit ==
    /\ NfStart("call")
    /\ nf_listen \in NfListenValues
    /\ tool_perm \in BOOLEAN
    /\ dev_log \in {None, Some(1)}
    /\ dev_tool \in BOOLEAN

\* line 199 with adb_with_tools.py lines 128-154: kill the tool app, delete
\* the old log, start the tool app, wait for its process, start the statistics
prepare_and_start_statistics_net_traffic ==
    /\ nf_pc = "call"
    /\ \E raises \in BOOLEAN :
          IF raises
          THEN /\ nf_pc' = "raised"
               /\ dev_tool' = FALSE /\ dev_log' = None
               /\ UNCHANGED <<nf_started, dev_stats>>
          ELSE /\ nf_pc' = "go_back"
               /\ nf_started' = TRUE
               /\ dev_tool' = TRUE /\ dev_stats' = TRUE
               /\ dev_log' = IF tool_perm THEN Some(0) ELSE None
    /\ UNCHANGED <<nf_listen, nf_stops, nf_dels, nf_kills, nf_cat, nf_out, tool_perm>>
    /\ UNCHANGED notNf

\* line 201
go_back ==
    /\ nf_pc = "go_back"
    /\ \E raises \in BOOLEAN : nf_pc' = IF raises THEN "raised" ELSE "on_start"
    /\ UNCHANGED <<nf_listen, nf_started, nf_stops, nf_dels, nf_kills, nf_cat,
                   nf_out, tool_perm, dev_stats, dev_log, dev_tool>>
    /\ UNCHANGED notNf

\* line 203
on_start_test_netflow ==
    /\ nf_pc = "on_start"
    /\ \E raises \in BOOLEAN : nf_pc' = IF raises THEN "raised" ELSE "sleep"
    /\ UNCHANGED <<nf_listen, nf_started, nf_stops, nf_dels, nf_kills, nf_cat,
                   nf_out, tool_perm, dev_stats, dev_log, dev_tool>>
    /\ UNCHANGED notNf

\* line 204: time.sleep(listen_seconds) raises ValueError on a negative
\* argument; meanwhile the tool writes its log, a line per second at most
sleep_listen_seconds ==
    /\ nf_pc = "sleep"
    /\ IF nf_listen < 0
       THEN nf_pc' = "raised" /\ UNCHANGED dev_log
       ELSE /\ nf_pc' = "finish_stop"
            /\ \E n \in 0 .. MaxLogLines :
                  dev_log' = IF IsNone(dev_log) THEN None ELSE Some(n)
    /\ UNCHANGED <<nf_listen, nf_started, nf_stops, nf_dels, nf_kills, nf_cat,
                   nf_out, tool_perm, dev_stats, dev_tool>>
    /\ UNCHANGED notNf

\* adb_with_tools.py line 160
stop_statistics_net_traffic ==
    /\ nf_pc = "finish_stop"
    /\ nf_stops' = nf_stops + 1
    /\ dev_stats' = FALSE
    /\ nf_pc' = "finish_cat"
    /\ UNCHANGED <<nf_listen, nf_started, nf_dels, nf_kills, nf_cat, nf_out,
                   tool_perm, dev_log, dev_tool>>
    /\ UNCHANGED notNf

\* adb_with_tools.py line 162
cat_file ==
    /\ nf_pc = "finish_cat"
    /\ nf_cat' = dev_log
    /\ nf_pc' = "finish_del"
    /\ UNCHANGED <<nf_listen, nf_started, nf_stops, nf_dels, nf_kills, nf_out,
                   tool_perm, dev_stats, dev_log, dev_tool>>
    /\ UNCHANGED notNf

\* adb_with_tools.py line 163
del_file ==
    /\ nf_pc = "finish_del"
    /\ nf_dels' = nf_dels + 1
    /\ dev_log' = None
    /\ nf_pc' = "finish_kill"
    /\ UNCHANGED <<nf_listen, nf_started, nf_stops, nf_kills, nf_cat, nf_out,
                   tool_perm, dev_stats, dev_tool>>
    /\ UNCHANGED notNf

\* adb_with_tools.py lines 164-169
kill_tools_app ==
    /\ nf_pc = "finish_kill"
    /\ nf_kills' = nf_kills + 1
    /\ dev_tool' = FALSE
    /\ nf_pc' = IF IsNone(nf_cat) THEN "raised" ELSE "format"
    /\ UNCHANGED <<nf_listen, nf_started, nf_stops, nf_dels, nf_cat, nf_out,
                   tool_perm, dev_stats, dev_log>>
    /\ UNCHANGED notNf

\* net[-listen_seconds:] of a list of n entries; net[-0:] is the whole list
LastSeconds(n, listen_seconds) ==
    IF listen_seconds = 0 \/ listen_seconds > n THEN n ELSE listen_seconds

\* adb_with_tools.py line 176 and lines 206-210
format_and_return ==
    /\ nf_pc = "format"
    /\ nf_out' = LastSeconds(Val(nf_cat), nf_listen)
    /\ nf_pc' = "returned"
    /\ UNCHANGED <<nf_listen, nf_started, nf_stops, nf_dels, nf_kills, nf_cat,
                   tool_perm, dev_stats, dev_log, dev_tool>>
    /\ UNCHANGED notNf

NfNext ==
    \/ prepare_and_start_statistics_net_traffic
    \/ go_back
    \/ on_start_test_netflow
    \/ sleep_listen_seconds
    \/ stop_statistics_net_traffic
    \/ cat_file
    \/ del_file
    \/ kill_tools_app
    \/ format_and_return

\* C2: once prepare_and_start_statistics_net_traffic has succeeded, every
\* exit of start_test_netflow, by return or by exception, has sent the stop
\* command, deleted the log file and killed the tool app exactly once each.
C2_TeardownOnEveryExit ==
    (nf_started /\ nf_pc \in {"returned", "raised"}) =>
        /\ nf_stops = 1 /\ nf_dels = 1 /\ nf_kills = 1
        /\ ~dev_stats /\ ~dev_tool

(***************************************************************************)
(* perf_helper.py start_screen_record / stop_screen_record with            *)
(* adb_with_tools.py AdbProxyWithScreenRecorder: the screen recording      *)
(* session.  The tool accepts a command (its reply holds 'Starting:') or   *)
(* rejects it.  After an accepted start command the tool shows the         *)
(* system's recording permission dialog and records once it is granted.    *)
(***************************************************************************)
MaxRecordWait == 2  \* largest record_wait_seconds tried

RecordWaitValues == {-1} \cup (0 .. MaxRecordWait)

\* update_screen_record_settings' default record_count_down_second
DefaultCountDown == 5

\* a command sent to the tool and whether its reply holds 'Starting:'
Cmd(cmd, accepted) == [cmd |-> cmd, ok |-> accepted]

RecStart(pc) ==
    /\ rec_pc = pc /\ rec_started = FALSE /\ rec_stops = 0
    /\ rec_cmds = <<>> /\ rec_calls = <<>>
    /\ dev_rec = "idle"

RecOff ==
    /\ RecStart("off")
    /\ rec_wait = 0 /\ rec_auto_delete = FALSE /\ dev_cfg = None

RecInit ==
    /\ RecStart("call")
    /\ rec_wait \in RecordWaitValues
    /\ rec_auto_delete \in BOOLEAN
    /\ dev_cfg \in {None, Some([auto_stop |-> TRUE, count_down |-> DefaultCountDown,
                                auto_delete |-> FALSE])}

\* auto-stop armed for a positive wait only
auto_stop_record_positive(record_wait_seconds) == record_wait_seconds > 0

\* lines 234-243: `if record_wait_seconds:` chooses auto_stop_record
auto_stop_record(record_wait_seconds) == record_wait_seconds # 0

\* the settings command sent without looking at the tool's reply
update_screen_record_settings_unchecked ==
    /\ rec_pc = "call"
    /\ \E accepted \in BOOLEAN :
          rec_cmds' = Append(rec_cmds, Cmd("setting", accepted))
    /\ rec_pc' = "start"
    /\ UNCHANGED <<rec_wait, rec_auto_delete, rec_started, rec_stops, rec_calls,
                   dev_cfg, dev_rec>>
    /\ UNCHANGED notRec

\* lines 234-243 with adb_with_tools.py lines 60-73
update_screen_record_settings ==
    /\ rec_pc = "call"
    /\ \E accepted \in BOOLEAN :
          /\ rec_cmds' = Append(rec_cmds, Cmd("setting", accepted))
          /\ IF accepted
             THEN /\ dev_cfg' = Some([auto_stop |-> auto_stop_record(rec_wait),
                                      count_down |-> IF rec_wait # 0 THEN rec_wait
                                                     ELSE DefaultCountDown,
                                      auto_delete |-> rec_auto_delete])
                  /\ rec_pc' = "start"
             ELSE rec_pc' = "raised" /\ UNCHANGED dev_cfg
    /\ UNCHANGED <<rec_wait, rec_auto_delete, rec_started, rec_stops, rec_calls, dev_rec>>
    /\ UNCHANGED notRec

\* lines 244-245 with adb_with_tools.py lines 75-83
start_screen_record ==
    /\ rec_pc = "start"
    /\ \E accepted \in BOOLEAN :
          /\ rec_cmds' = Append(rec_cmds, Cmd("startRecord", accepted))
          /\ IF accepted
             THEN rec_started' = TRUE /\ dev_rec' = "asking" /\ rec_pc' = "perm"
             ELSE rec_pc' = "raised" /\ UNCHANGED <<rec_started, dev_rec>>
    /\ UNCHANGED <<rec_wait, rec_auto_delete, rec_stops, rec_calls, dev_cfg>>
    /\ UNCHANGED notRec

\* line 246: the callback grants the permission and returns True, fails to
\* and returns False, or raises before or after granting it
apply_screen_record_permission ==
    /\ rec_pc = "perm"
    /\ rec_calls' = Append(rec_calls, "permission")
    /\ \E r \in {"granted", "denied", "raises", "granted_raises"} :
          /\ dev_rec' = IF r \in {"granted", "granted_raises"} THEN "recording"
                        ELSE IF r = "denied" THEN "idle" ELSE dev_rec
          /\ rec_pc' = IF r = "granted" THEN "on_start"
                       ELSE IF r = "denied" THEN "returned" ELSE "raised"
    /\ UNCHANGED <<rec_wait, rec_auto_delete, rec_started, rec_stops, rec_cmds, dev_cfg>>
    /\ UNCHANGED notRec

\* lines 247-248
on_start_screen_record ==
    /\ rec_pc = "on_start"
    /\ rec_calls' = Append(rec_calls, "on_start")
    /\ \E raises \in BOOLEAN :
          rec_pc' = IF raises THEN "raised"
                    ELSE IF rec_wait # 0 THEN "sleep" ELSE "returned"
    /\ UNCHANGED <<rec_wait, rec_auto_delete, rec_started, rec_stops, rec_cmds,
                   dev_cfg, dev_rec>>
    /\ UNCHANGED notRec

\* lines 249-250: time.sleep raises ValueError on a negative argument
sleep_record_wait ==
    /\ rec_pc = "sleep"
    /\ rec_pc' = IF rec_wait < 0 THEN "raised" ELSE "returned"
    /\ UNCHANGED <<rec_wait, rec_auto_delete, rec_started, rec_stops, rec_cmds,
                   rec_calls, dev_cfg, dev_rec>>
    /\ UNCHANGED notRec

\* the tool's own timer, armed by auto_stop_record
auto_stop_timer ==
    /\ dev_rec = "recording"
    /\ ~IsNone(dev_cfg) /\ Val(dev_cfg).auto_stop
    /\ dev_rec' = "idle"
    /\ UNCHANGED <<rec_pc, rec_wait, rec_auto_delete, rec_started, rec_stops,
                   rec_cmds, rec_calls, dev_cfg>>
    /\ UNCHANGED notRec

\* lines 252-255 with adb_with_tools.py lines 85-92, called by the user of
\* the helper after start_screen_record has returned or raised
stop_screen_record ==
    /\ rec_pc \in {"returned", "raised"}
    /\ rec_started
    /\ rec_stops' = rec_stops + 1
    /\ \E accepted \in BOOLEAN :
          /\ rec_cmds' = Append(rec_cmds, Cmd("stopRecording", accepted))
          /\ IF accepted
             THEN dev_rec' = "idle" /\ rec_pc' = "stopped"
             ELSE rec_pc' = "stop_raised" /\ UNCHANGED dev_rec
    /\ UNCHANGED <<rec_wait, rec_auto_delete, rec_started, rec_calls, dev_cfg>>
    /\ UNCHANGED notRec

RecNext ==
    \/ update_screen_record_settings
    \/ start_screen_record
    \/ apply_screen_record_permission
    \/ on_start_screen_record
    \/ sleep_record_wait
    \/ auto_stop_timer
    \/ stop_screen_record

\* C3: when start_screen_record raises after the start-recording command
\* was accepted, the recording has been stopped exactly once: one stop
\* command was sent and the tool is not recording.
C3_StoppedBeforeRaise ==
    (rec_started /\ rec_pc = "raised") =>
        /\ rec_stops = 1
        /\ dev_rec # "recording"

\* the commands the tool rejected
Rejected(cmd) == \E k \in 1 .. Len(rec_cmds) : rec_cmds[k] = Cmd(cmd, FALSE)

\* C21: a rejected settings command makes start_screen_record raise at
\* once: no start command follows and no callback is invoked; a rejected
\* start command makes it raise with no callback invoked either.
C21_RejectedCommandAborts ==
    /\ Rejected("setting") =>
          /\ rec_pc = "raised"
          /\ rec_cmds = <<Cmd("setting", FALSE)>>
          /\ rec_calls = <<>>
    /\ Rejected("startRecord") =>
          /\ rec_pc = "raised"
          /\ rec_cmds = <<Cmd("setting", TRUE), Cmd("startRecord", FALSE)>>
          /\ rec_calls = <<>> /\ dev_rec = "idle"

C21_Witness ==
    /\ rec_pc = "raised" /\ Rejected("setting")
    /\ ~rec_started /\ rec_stops = 0

\* C25: auto-stop or manual stop is fixed by the settings command, which is
\* the first command of the session and precedes the start command: once
\* the recording was started the tool holds auto_stop_record = True exactly
\* when record_wait_seconds is non-zero, and start_screen_record itself
\* sends no stop command: a stop command only comes from a call of
\* stop_screen_record.
C25_StopModeFixedBeforeStart ==
    /\ \A k \in 1 .. Len(rec_cmds) :
          /\ rec_cmds[k].cmd = "setting" <=> k = 1
          /\ rec_cmds[k].cmd = "startRecord" => k = 2 /\ rec_cmds[1].ok
    /\ rec_started =>
          /\ ~IsNone(dev_cfg)
          /\ Val(dev_cfg).auto_stop = (rec_wait # 0)
    /\ rec_pc \notin {"stopped", "stop_raised"} => rec_stops = 0

C25_Witness ==
    /\ rec_pc = "returned" /\ rec_wait > 0
    /\ rec_calls = <<"permission", "on_start">>
    /\ Val(dev_cfg).auto_stop /\ dev_rec = "idle" /\ rec_stops = 0

(***************************************************************************)
(* Claims about the aggregator and the sampler.                            *)
(***************************************************************************)
\* the pairs of keys that sorted(raw_data.items()) puts next to each other
AdjacentKeys(rd) ==
    LET ks == SortedKeys(DOMAIN rd)
    IN { <<ks[j], ks[j + 1]>> : j \in 1 .. (Len(ks) - 1) }

TotalDelta(rd, a, b) == Val(rd[b].cpu_g).total - Val(rd[a].cpu_g).total

HasEntry(list, b) == \E j \in 1 .. Len(list) : list[j].b = b

\* C4: an interval whose total-ticks delta is 0 is skipped without a
\* division: _compute_cpu_memory returns, with no entry for that interval
\* in either series and an entry for every other complete interval.
C4_ZeroDeltaIntervalSkipped ==
    ag_pc # "input" =>
        /\ ag_pc = "returned"
        /\ \A p \in AdjacentKeys(ag_raw) :
              (check_cpu_memory_data(ag_raw[p[1]]) /\ check_cpu_memory_data(ag_raw[p[2]])) =>
                  /\ HasEntry(ag_data.cpu, p[2]) <=> (TotalDelta(ag_raw, p[1], p[2]) # 0)
                  /\ HasEntry(ag_data.mem, p[2]) <=> (TotalDelta(ag_raw, p[1], p[2]) # 0)

\* the entry e of a cpu series was computed from two complete records of rd
CpuEntryFromCompleteRecords(rd, e) ==
    /\ e.a \in DOMAIN rd /\ e.b \in DOMAIN rd /\ e.a < e.b
    /\ check_cpu_memory_data(rd[e.a]) /\ check_cpu_memory_data(rd[e.b])
    /\ TotalDelta(rd, e.a, e.b) # 0
    /\ e.v[1] * (TotalDelta(rd, e.a, e.b) * Val(rd[e.b].cpu_g).freq[2])
         = e.v[2] * (((Val(rd[e.b].cpu_a).user - Val(rd[e.a].cpu_a).user)
                       + (Val(rd[e.b].cpu_a).kernel - Val(rd[e.a].cpu_a).kernel))
                     * Val(rd[e.b].cpu_g).freq[1])

MemEntryFromCompleteRecord(rd, e) ==
    /\ e.b \in DOMAIN rd
    /\ check_cpu_memory_data(rd[e.b])
    /\ e.v = Val(rd[e.b].memory)

C8_StopsAtNextCheck ==
    /\ s_pc = "sleep" => flagAtCheck
    /\ ~flagAtCheck => (s_pc \in {"wait", "returned"} /\ ~keep)
    /\ lateTicks <= 1
    /\ flagReads <= s_i + 1

C8_Witness ==
    /\ ~keep /\ ~flagAtCheck
    /\ s_pc = "wait" /\ s_i < max_listen

FetchesDone(k) ==
    k = 0 \/ (task[Req("cpu", k - 1)] = "done" /\ task[Req("mem", k - 1)] = "done")

\* the rate of the interval that ends with record k, from what the device
\* answered at the two ticks
ExpectedRate(k) ==
    compute_cpu_rate(DeviceSys(k - 1), DeviceSys(k),
                     IF k = 1 THEN AppCPU(0, 0) ELSE DeviceApp(k - 1), DeviceApp(k),
                     TRUE).app

\* C26: once the CPU task and the memory task of a tick and of the tick
\* before it have finished, _compute_cpu_memory yields one entry for the
\* interval, with the same rate and memory value in every reachable state,
\* that is for every order in which the tasks completed.
C26_OrderIndependent ==
    \A k \in 1 .. MaxListen :
        (FetchesDone(k) /\ FetchesDone(k - 1)) =>
            LET c == compute_cpu_memory(raw)
            IN /\ c.ok
               /\ \E n \in 1 .. Len(c.cpu) :
                     /\ c.cpu[n] = [v |-> ExpectedRate(k), a |-> k - 1, b |-> k]
                     /\ c.mem[n] = [v |-> DeviceMem(k), b |-> k]
               /\ \A n \in 1 .. Len(c.cpu) : c.cpu[n].b = k => c.cpu[n].a = k - 1

C26_Witness ==
    /\ \A k \in 1 .. 2 : FetchesDone(k)
    /\ task[Req("cb", 1)] = "done" /\ task[Req("cb", 0)] = "queued"
    /\ Len(dataCpu) = 1
    /\ Len(compute_cpu_memory(raw).cpu) = 2

Finishes(kind, k) ==
    /\ task[Req(kind, k - 1)] = "queued"
    /\ task'[Req(kind, k - 1)] = "done"

\* what one step may do to tmp_data
FieldsWrittenOnce ==
    /\ raw'[0] = raw[0]
    /\ DOMAIN raw \subseteq DOMAIN raw'
    /\ \A k \in DOMAIN raw' \ DOMAIN raw :
          /\ raw'[k] = EmptyRecord
          /\ Finishes("work", k)
    /\ \A k \in DOMAIN raw \ {0} :
          /\ <<raw'[k].cpu_g, raw'[k].cpu_a>> # <<raw[k].cpu_g, raw[k].cpu_a>> =>
                /\ IsNone(raw[k].cpu_g) /\ IsNone(raw[k].cpu_a)
                /\ Finishes("cpu", k)
                /\ raw'[k].memory = raw[k].memory
                /\ \A j \in DOMAIN raw \ {k} : raw'[j] = raw[j]
          /\ raw'[k].memory # raw[k].memory =>
                /\ IsNone(raw[k].memory)
                /\ Finishes("mem", k)
                /\ raw'[k].cpu_g = raw[k].cpu_g /\ raw'[k].cpu_a = raw[k].cpu_a
                /\ \A j \in DOMAIN raw \ {k} : raw'[j] = raw[j]

\* C28: a field of a tick record changes only from None, only in the step
\* in which that tick's own fetch task finishes (cpu_g and cpu_a by the CPU
\* fetch, memory by the memory fetch), a step changes fields of one record
\* only, and the baseline record 0 never changes.
C28_FieldsWrittenByOwnTaskOnce == [][FieldsWrittenOnce]_vars

C28_Witness ==
    /\ s_pc = "returned"
    /\ DOMAIN raw = 0 .. 2
    /\ \A k \in 1 .. 2 : check_cpu_memory_data(raw[k])
    /\ raw[0] = BaselineRecord(Val(raw[0].cpu_g))

\* the ticks whose worker task has been put to the pool
DispatchedTicks == {i \in Ticks : task[Req("work", i)] # "none"}

\* C29: start_test_cpu_memory dispatches the ticks 0, 1, ... in increasing
\* order, each at most once and at most max_listen_seconds of them; when it
\* ends with data['keep'] still True it has dispatched exactly
\* max_listen_seconds; tick idx creates the record with key idx + 1 next to
\* the baseline record 0.
C29_DispatchesEachTickOnce ==
    /\ s_i <= max_listen
    /\ DispatchedTicks = 0 .. (s_i - 1)
    /\ DOMAIN raw = {0} \cup {i + 1 : i \in {j \in Ticks : task[Req("work", j)] = "done"}}
    /\ (s_pc \in {"returned", "raised"} /\ keep) => s_i = max_listen

C32_EventuallyReturns == <>(s_pc = "returned")

(***************************************************************************)
(* Claims about the rate calculator.                                       *)
(***************************************************************************)
RatEq(r, q) == r[1] * q[2] = q[1] * r[2]

ScenarioA(in) ==
    /\ in.ss = SysCPU(100, 50, 1000, <<10, 10>>)
    /\ in.es = SysCPU(150, 70, 1100, <<9, 10>>)
    /\ in.sa = AppCPU(10, 5)
    /\ in.ea = AppCPU(15, 9)

\* C10: compute_cpu_rate returns (app user delta + app kernel delta) /
\* total delta and (system user delta + system kernel delta) / total delta,
\* each times the end snapshot's frequency ratio when normalized; on
\* scenario A the app fraction is 9/100 and the normalized one 81/1000.
C10_RateFormula ==
    rt_pc = "returned" =>
        LET in == rt_in[1]
            out == rt_out[1]
            f == IF in.norm THEN in.es.freq ELSE <<1, 1>>
            total == in.es.total - in.ss.total
            appd == (in.ea.user - in.sa.user) + (in.ea.kernel - in.sa.kernel)
            sysd == (in.es.user - in.ss.user) + (in.es.kernel - in.ss.kernel)
        IN /\ total # 0 /\ out.app[2] # 0 /\ out.sys[2] # 0
           /\ RatEq(out.app, <<appd * f[1], total * f[2]>>)
           /\ RatEq(out.sys, <<sysd * f[1], total * f[2]>>)
           /\ (ScenarioA(in) /\ ~in.norm) => RatEq(out.app, <<9, 100>>)
           /\ (ScenarioA(in) /\ in.norm) => RatEq(out.app, <<81, 1000>>)

C10_Witness ==
    /\ rt_pc = "returned"
    /\ ScenarioA(rt_in[1]) /\ rt_in[1].norm
    /\ RatEq(rt_out[1].app, <<81, 1000>>)

(***************************************************************************)
(* cpu.py get_processes_cpu_usage: the CPU time of a list of processes.    *)
(* Reading /proc/<pid>/stat gives the process's counters ("ok"), reports   *)
(* 'No such file or directory' ("gone": get_cpu_details raises KeyError),  *)
(* or reports an error (get_cpu_details raises ValueError).                *)
(***************************************************************************)
MaxPids == 3        \* longest process_id_list tried

Pids == 1 .. MaxPids
StatOutcomes == {"ok", "gone", "error"}

\* fields 13 (utime) and 14 (stime) of /proc/<pid>/stat
ProcTicks(pid) == AppCPU(10 * pid + 3, pid)

RECURSIVE RemoveFirst(_, _)
\* list.remove(x)
RemoveFirst(list, x) ==
    IF list = <<>> THEN <<>>
    ELSE IF Head(list) = x THEN Tail(list)
    ELSE <<Head(list)>> \o RemoveFirst(Tail(list), x)

RECURSIVE RemoveEach(_, _)
\* lines 165-166: for xp in miss_pid_list: process_id_list.remove(xp)
RemoveEach(list, miss) ==
    IF miss = <<>> THEN list
    ELSE RemoveEach(RemoveFirst(list, Head(miss)), Tail(miss))

\* a read that treats no answer as a vanished process
is_miss_never(st) == FALSE

\* lines 156-160: the KeyError of a vanished process
is_miss(st) == st = "gone"

\* line 167
processes_cpu_result(total_u, total_s) == AppCPU(total_s, total_s)

PcuStart(pc) ==
    /\ pu_pc = pc /\ pu_idx = 1
    /\ pu_total_u = 0 /\ pu_total_s = 0
    /\ pu_miss = <<>> /\ pu_reads = <<>> /\ pu_out = None

PcuOff ==
    /\ PcuStart("off")
    /\ pu_list0 = <<>> /\ pu_list = <<>> /\ pu_auto = FALSE
    /\ pu_stat = <<>>

PcuInit ==
    /\ PcuStart("loop")
    /\ \E n \in 0 .. MaxPids :
          /\ pu_list0 = [k \in 1 .. n |-> k]
          /\ pu_stat \in [1 .. n -> StatOutcomes]
    /\ pu_list = pu_list0
    /\ pu_auto \in BOOLEAN

\* lines 153-163: one iteration of the loop
pcu_read ==
    /\ pu_pc = "loop" /\ pu_idx <= Len(pu_list)
    /\ LET pi == pu_list[pu_idx]
           st == pu_stat[pi]
       IN /\ pu_reads' = Append(pu_reads, pi)
          /\ IF st = "ok"
             THEN /\ pu_total_u' = pu_total_u + ProcTicks(pi).user
                  /\ pu_total_s' = pu_total_s + ProcTicks(pi).kernel
                  /\ pu_idx' = pu_idx + 1
                  /\ UNCHANGED <<pu_pc, pu_miss>>
             ELSE IF is_miss(st)
             THEN /\ pu_miss' = Append(pu_miss, pi)
                  /\ pu_idx' = pu_idx + 1
                  /\ UNCHANGED <<pu_pc, pu_total_u, pu_total_s>>
             ELSE /\ pu_pc' = "raised"
                  /\ UNCHANGED <<pu_idx, pu_total_u, pu_total_s, pu_miss>>
    /\ UNCHANGED <<pu_list0, pu_list, pu_auto, pu_stat, pu_out>>
    /\ UNCHANGED notPcu

\* lines 164-167
pcu_return ==
    /\ pu_pc = "loop" /\ pu_idx > Len(pu_list)
    /\ pu_list' = IF pu_auto THEN RemoveEach(pu_list, pu_miss) ELSE pu_list
    /\ pu_out' = Some(processes_cpu_result(pu_total_u, pu_total_s))
    /\ pu_pc' = "returned"
    /\ UNCHANGED <<pu_list0, pu_auto, pu_stat, pu_idx, pu_total_u, pu_total_s,
                   pu_miss, pu_reads>>
    /\ UNCHANGED notPcu

PcuNext == pcu_read \/ pcu_return

RECURSIVE SumTicks(_, _)
SumTicks(S, field) ==
    IF S = {} THEN 0
    ELSE LET p == CHOOSE q \in S : TRUE
         IN ProcTicks(p)[field] + SumTicks(S \ {p}, field)

PcuListed == {pu_list0[k] : k \in 1 .. Len(pu_list0)}
PcuGone == {p \in PcuListed : pu_stat[p] = "gone"}
PcuFailing == {p \in PcuListed : pu_stat[p] = "error"}

\* C11: the AppCPU that get_processes_cpu_usage returns has the sum of the
\* user ticks of the listed processes that still exist as its user field
\* and the sum of their kernel ticks as its kernel field.
C11_SumsUserAndKernel ==
    pu_pc = "returned" =>
        /\ Val(pu_out).user = SumTicks(PcuListed \ PcuGone, "user")
        /\ Val(pu_out).kernel = SumTicks(PcuListed \ PcuGone, "kernel")

\* C13: a vanished process is no fatal error: the function raises only for
\* another read error and then always; when it returns, every listed pid
\* was read once, the vanished pids are removed from the list object (with
\* auto_remove_miss_process), and the totals are sums over the other pids.
C13_GoneProcessNotFatal ==
    /\ pu_pc = "raised" => PcuFailing # {}
    /\ pu_pc = "returned" =>
          /\ PcuFailing = {}
          /\ pu_reads = pu_list0
          /\ pu_list = IF pu_auto
                       THEN SelectSeq(pu_list0, LAMBDA p : p \notin PcuGone)
                       ELSE pu_list0
          /\ pu_total_u = SumTicks(PcuListed \ PcuGone, "user")
          /\ pu_total_s = SumTicks(PcuListed \ PcuGone, "kernel")
          /\ Val(pu_out).kernel = SumTicks(PcuListed \ PcuGone, "kernel")

C13_Witness ==
    /\ pu_pc = "returned" /\ pu_auto
    /\ PcuGone # {} /\ PcuListed \ PcuGone # {}
    /\ Len(pu_list) < Len(pu_list0)

(***************************************************************************)
(* Two consecutive CPU snapshots as the sampler takes them (perf_helper.py *)
(* get_cpu_usage) and the rate compute_cpu_rate derives from them.  The    *)
(* app's processes are 1 .. n; between the snapshots process p runs        *)
(* procs[p].du user ticks and procs[p].dk kernel ticks, other programs run *)
(* `other` user ticks, the CPU idles `idle` ticks, and the processes in    *)
(* `gone` exit before the second snapshot.  /proc/stat counts every tick.  *)
(***************************************************************************)
MaxSnapProcs == 2    \* most processes the app has
MaxTickDelta == 2    \* most ticks of one kind between the two snapshots

SnapFreqs == {<<1, 2>>, <<1, 1>>}

RECURSIVE SeqSum(_, _, _)
SeqSum(procs, field, n) ==
    IF n = 0 THEN 0 ELSE procs[n][field] + SeqSum(procs, field, n - 1)

RECURSIVE AliveSum(_, _, _, _, _)
\* the sums total_u / total_s over the processes that still exist
AliveSum(procs, gone, field, atEnd, n) ==
    IF n = 0 THEN 0
    ELSE (IF atEnd /\ n \in gone THEN 0
          ELSE ProcTicks(n)[field] + (IF atEnd THEN procs[n][IF field = "user" THEN "du" ELSE "dk"] ELSE 0))
         + AliveSum(procs, gone, field, atEnd, n - 1)

\* get_cpu_global at the first (atEnd = FALSE) and second snapshot
SnapSys(in, atEnd) ==
    LET n == Len(in.procs)
        du == SeqSum(in.procs, "du", n) + in.other
        dk == SeqSum(in.procs, "dk", n)
    IN IF atEnd
       THEN SysCPU(100 + du, 50 + dk, 1000 + du + dk + in.idle, in.freq)
       ELSE SysCPU(100, 50, 1000, <<1, 1>>)

\* get_cpu_usage lines 48-50: the app snapshot of either path
SnapApp(in, atEnd) ==
    IF in.path = "single"
    THEN AppCPU(ProcTicks(1).user + (IF atEnd THEN in.procs[1].du ELSE 0),
                ProcTicks(1).kernel + (IF atEnd THEN in.procs[1].dk ELSE 0))
    ELSE processes_cpu_result(
             AliveSum(in.procs, in.gone, "user", atEnd, Len(in.procs)),
             AliveSum(in.procs, in.gone, "kernel", atEnd, Len(in.procs)))

SnapOff == sn_pc = "off" /\ sn_in = <<>> /\ sn_out = <<>>

SnapInit ==
    /\ sn_pc = "input"
    /\ \E n \in 1 .. MaxSnapProcs :
          \E procs \in [1 .. n -> [du : 0 .. MaxTickDelta, dk : 0 .. MaxTickDelta]],
             gone \in SUBSET (2 .. n),
             other \in 0 .. 1, idle \in 0 .. 1, freq \in SnapFreqs :
                sn_in = [path |-> IF n = 1 THEN "single" ELSE "multi",
                         procs |-> procs, gone |-> gone,
                         other |-> other, idle |-> idle, freq |-> freq]
    /\ sn_out = <<>>

SnapRate(is_normalized) ==
    compute_cpu_rate(SnapSys(sn_in, FALSE), SnapSys(sn_in, TRUE),
                     SnapApp(sn_in, FALSE), SnapApp(sn_in, TRUE), is_normalized)

\* compute_cpu_rate returns
snap_return ==
    /\ sn_pc = "input"
    /\ SnapRate(TRUE).ok
    /\ sn_out' = <<[norm |-> SnapRate(TRUE), raw |-> SnapRate(FALSE)]>>
    /\ sn_pc' = "returned"
    /\ UNCHANGED sn_in
    /\ UNCHANGED notSnap

\* compute_cpu_rate raises ZeroDivisionError
snap_raise ==
    /\ sn_pc = "input"
    /\ ~SnapRate(TRUE).ok
    /\ sn_pc' = "raised"
    /\ UNCHANGED <<sn_in, sn_out>>
    /\ UNCHANGED notSnap

SnapNext == snap_return \/ snap_raise

\* C12: for two sampler snapshots with a positive total-ticks delta the
\* normalised app rate lies between 0 and the frequency ratio, and the
\* un-normalised app and system fractions add up to at most 1, on the
\* single-pid path and on the multi-process path.
C12_RatesBounded ==
    sn_pc = "returned" =>
        LET norm == sn_out[1].norm
            plain == sn_out[1].raw
        IN /\ norm.app[2] > 0 /\ plain.app[2] > 0
           /\ norm.app[1] >= 0
           /\ norm.app[1] * sn_in.freq[2] <= sn_in.freq[1] * norm.app[2]
           /\ plain.app[1] + plain.sys[1] <= plain.app[2]

(***************************************************************************)
(* The memory fetch of consecutive sampler ticks: _work_on_cpu_memory      *)
(* chooses the pids, _async_run_get_memory polls them with                 *)
(* get_process_memory / get_processes_memory and writes the tick's         *)
(* 'memory' field.  `dumpsys meminfo <pid>` answers 'No process' for a pid *)
(* that does not exist; for a live pid it answers the dump, or a text      *)
(* without the 'MEMINFO in pid' header.                                    *)
(***************************************************************************)
MaxMemTicks == 3     \* ticks of the run
MaxMemPids == 2      \* processes of the app at the start
MaxDumps == 3        \* dump commands after which the header is no longer missing

MainPid == 1

MemPids == 1 .. MaxMemPids

\* total_pss of the dump of a pid
ProcPss(pid) == 50 + pid

RECURSIVE SetToSeq(_)
\* find_process_ids: the pids of the processes `ps` lists
SetToSeq(S) ==
    IF S = {} THEN <<>>
    ELSE LET p == CHOOSE q \in S : \A r \in S : q <= r
         IN <<p>> \o SetToSeq(S \ {p})

\* perf_helper.py line 160 and get_memory_usage: the pids polled at a tick
tick_pids(mode, alive) == IF mode = "main" THEN <<MainPid>> ELSE SetToSeq(alive)

MemStart(pc) ==
    /\ mm_pc = pc /\ mm_tick = 0
    /\ mm_list = <<>> /\ mm_idx = 1 /\ mm_dumps = 0
    /\ mm_total = None /\ mm_polls = {} /\ mm_fields = <<>>

MemOff == MemStart("off") /\ mm_mode = "off" /\ mm_alive = {}

MemInit ==
    /\ MemStart("tick")
    /\ mm_mode \in {"main", "multi"}
    /\ mm_alive = MemPids

\* the device: a process of the app exits
proc_exit ==
    /\ mm_pc \in {"tick", "fetch"}
    /\ \E p \in mm_alive : mm_alive' = mm_alive \ {p}
    /\ UNCHANGED <<mm_pc, mm_mode, mm_tick, mm_list, mm_idx, mm_dumps, mm_total,
                   mm_polls, mm_fields>>
    /\ UNCHANGED notMem

\* _work_on_cpu_memory lines 158-162 and the entry of _async_run_get_memory
work_on_memory ==
    /\ mm_pc = "tick"
    /\ mm_list' = tick_pids(mm_mode, mm_alive)
    /\ mm_idx' = 1 /\ mm_dumps' = 0 /\ mm_total' = None
    /\ mm_pc' = "fetch"
    /\ UNCHANGED <<mm_mode, mm_tick, mm_alive, mm_polls, mm_fields>>
    /\ UNCHANGED notMem

\* get_process_memory lines 106-115: one dump command and what follows it
get_process_memory ==
    /\ mm_pc \in {"fetch", "retry"}
    /\ mm_idx <= Len(mm_list)
    /\ LET pi == mm_list[mm_idx]
           sent == IF mm_pc = "fetch" THEN 1 ELSE mm_dumps + 1
       IN /\ mm_dumps' = sent
          /\ \/ /\ pi \notin mm_alive                 \* 'No process': return None
                /\ mm_polls' = mm_polls \cup {[pid |-> pi, tick |-> mm_tick, reply |-> "gone"]}
                /\ mm_idx' = mm_idx + 1
                /\ mm_pc' = "fetch"
                /\ UNCHANGED mm_total
             \/ /\ pi \in mm_alive                    \* the dump: return MemoryInfo
                /\ mm_polls' = mm_polls \cup {[pid |-> pi, tick |-> mm_tick, reply |-> "ok"]}
                /\ mm_total' = IF IsNone(mm_total) THEN Some(ProcPss(pi))
                               ELSE Some(Val(mm_total) + ProcPss(pi))
                /\ mm_idx' = mm_idx + 1
                /\ mm_pc' = "fetch"
             \/ /\ pi \in mm_alive                    \* no header: call itself again
                /\ sent < MaxDumps
                /\ mm_pc' = "retry"
                /\ UNCHANGED <<mm_polls, mm_total, mm_idx>>
    /\ UNCHANGED <<mm_mode, mm_tick, mm_alive, mm_list, mm_fields>>
    /\ UNCHANGED notMem

\* get_processes_memory `return total` and _async_run_get_memory rs['memory'] = memory
memory_write ==
    /\ mm_pc = "fetch"
    /\ mm_idx > Len(mm_list)
    /\ mm_fields' = Append(mm_fields, mm_total)
    /\ mm_tick' = mm_tick + 1
    /\ mm_pc' = IF mm_tick + 1 < MaxMemTicks THEN "tick" ELSE "done"
    /\ UNCHANGED <<mm_mode, mm_alive, mm_list, mm_idx, mm_dumps, mm_total, mm_polls>>
    /\ UNCHANGED notMem

MemNext == proc_exit \/ work_on_memory \/ get_process_memory \/ memory_write

\* C14: once the memory fetch has reported a pid gone at two consecutive
\* ticks, the pid is no longer tracked: no later tick polls it.
C14_GonePidDropped ==
    \A a \in mm_polls, b \in mm_polls, x \in mm_polls :
        /\ a.reply = "gone" /\ b.reply = "gone"
        /\ a.pid = b.pid /\ b.tick = a.tick + 1
        /\ x.pid = a.pid
        => x.tick <= b.tick

\* C15: get_process_memory retries at most once when the dump has no
\* 'MEMINFO in pid' header: one call sends at most 2 dump commands, and
\* after a second dump without the header the call is over.
C15_AtMostOneRetry ==
    /\ mm_dumps <= 2
    /\ mm_pc = "retry" => mm_dumps < 2

(***************************************************************************)
(* perf_helper.py: the two quiescence detectors.  A sample is the traffic  *)
(* of one second, [rx, tx] in bytes: a line {down, up} of the tool's log   *)
(* for the app detector, the increase of the /proc/net/dev counters for    *)
(* the device detector.  The tool writes a line per second from the moment *)
(* its statistics are started, so the first read of the app detector may   *)
(* find more than one line; every later read finds one more.               *)
(***************************************************************************)
MaxCheck == 3        \* largest max_check_second tried
MaxLimit == 2        \* largest limit_seconds tried
MaxPre == 1          \* most lines the log holds beyond the first at the first read

RxByteThreshold == 1 \* default rx_byte_threshold
TxByteThreshold == 1 \* default tx_byte_threshold

Sample(rx, tx) == [rx |-> rx, tx |-> tx]

SampleValues == {Sample(0, 0), Sample(1, 0), Sample(0, 2)}

\* the traffic of Scenario C, received = sent
ScenarioC == <<Sample(5, 5), Sample(2, 2), Sample(0, 0), Sample(0, 0), Sample(0, 0), Sample(0, 0)>>

\* a test that every sample passes
sample_ok_always(kind, s) == TRUE

\* line 284 (app) and line 324 (device)
sample_ok(kind, s) ==
    IF kind = "app"
    THEN s.tx < TxByteThreshold /\ s.rx < RxByteThreshold
    ELSE ~(s.rx > RxByteThreshold \/ s.tx > TxByteThreshold)

RECURSIVE ReadyCount(_, _, _, _)
\* lines 281-286: ready after j rounds of `for j in range(limit_seconds)`
ReadyCount(kind, latest, limit_seconds, j) ==
    IF j = 0 THEN 0
    ELSE ReadyCount(kind, latest, limit_seconds, j - 1)
         + (IF sample_ok(kind, latest[Len(latest) - (j - 1)]) THEN 1 ELSE 0)

\* a window test that looks at the newest sample only
window_ready_newest_only(kind, latest, limit_seconds) ==
    /\ Len(latest) >= limit_seconds
    /\ sample_ok(kind, latest[Len(latest)])

\* lines 279-287 (app) and 320-327 (device): enough samples, all of the
\* last limit_seconds pass
window_ready(kind, latest, limit_seconds) ==
    /\ Len(latest) >= limit_seconds
    /\ ReadyCount(kind, latest, limit_seconds, limit_seconds) = limit_seconds

QStart(pc) ==
    /\ q_pc = pc /\ q_i = 0 /\ q_log = <<>> /\ q_exit = "none"
    /\ q_started = FALSE /\ q_stops = 0

QuietOff ==
    /\ QStart("off")
    /\ q_kind = "off" /\ q_max = 0 /\ q_limit = 0 /\ q_script = <<>>

\* The device detector is entered at its first statement ("call") and, to
\* examine its loop, behind the baseline read of line 312 ("loop").
QuietInit ==
    /\ \/ q_kind = "app" /\ QStart("call")
       \/ q_kind = "device" /\ (QStart("call") \/ QStart("loop"))
    /\ \/ /\ q_script = <<>>
          /\ q_max \in 0 .. MaxCheck
          /\ q_limit \in 1 .. MaxLimit
       \/ /\ q_script = ScenarioC
          /\ q_max = 10
          /\ q_limit = 3

\* the logs the first read of the app detector can find
FirstLogs ==
    IF q_script # <<>> THEN {<<q_script[1]>>}
    ELSE UNION {[1 .. n -> SampleValues] : n \in 0 .. MaxPre + 1}

\* the traffic of the second sampled next
NextSamples ==
    IF q_script # <<>> THEN {q_script[q_i + 1]} ELSE SampleValues

CanSample == q_i < q_max /\ (q_script # <<>> => q_i < Len(q_script))

\* lines 271-272 of check_app_netflow_in_threshold
q_prepare_and_start ==
    /\ q_pc = "call" /\ q_kind = "app"
    /\ \E raises \in BOOLEAN :
          IF raises
          THEN q_pc' = "raised" /\ q_exit' = "start" /\ UNCHANGED q_started
          ELSE q_pc' = "go_back" /\ q_started' = TRUE /\ UNCHANGED q_exit
    /\ UNCHANGED <<q_kind, q_max, q_limit, q_script, q_i, q_log, q_stops>>
    /\ UNCHANGED notQuiet

\* line 273: self.adb.go_back(), before the try statement
q_go_back ==
    /\ q_pc = "go_back"
    /\ \E raises \in BOOLEAN :
          IF raises
          THEN q_pc' = "raised" /\ q_exit' = "go_back"
          ELSE q_pc' = "loop" /\ UNCHANGED q_exit
    /\ UNCHANGED <<q_kind, q_max, q_limit, q_script, q_i, q_log, q_started, q_stops>>
    /\ UNCHANGED notQuiet

\* lines 276-290: one round of the app detector's loop
app_sample ==
    /\ q_pc = "loop" /\ q_kind = "app"
    /\ CanSample
    /\ \/ /\ q_exit' = "read"                  \* read_current_net_traffic raises
          /\ q_pc' = "stop"
          /\ UNCHANGED <<q_i, q_log>>
       \/ /\ IF q_i = 0
             THEN q_log' \in FirstLogs
             ELSE \E s \in NextSamples : q_log' = Append(q_log, s)
          /\ q_i' = q_i + 1
          /\ IF window_ready(q_kind, q_log', q_limit)
             THEN q_exit' = "true" /\ q_pc' = "stop"
             ELSE UNCHANGED <<q_exit, q_pc>>
    /\ UNCHANGED <<q_kind, q_max, q_limit, q_script, q_started, q_stops>>
    /\ UNCHANGED notQuiet

\* lines 292-297: the loop is over; `for x in latest` with latest = None
\* raises TypeError
app_exhausted ==
    /\ q_pc = "loop" /\ q_kind = "app"
    /\ q_i = q_max
    /\ q_exit' = IF q_i = 0 THEN "TypeError" ELSE "false"
    /\ q_pc' = "stop"
    /\ UNCHANGED <<q_kind, q_max, q_limit, q_script, q_i, q_log, q_started, q_stops>>
    /\ UNCHANGED notQuiet

\* lines 298-299: finally: self.adb.stop_statistics_net_traffic()
q_finally_stop ==
    /\ q_pc = "stop"
    /\ q_stops' = q_stops + 1
    /\ q_pc' = IF q_exit \in {"true", "false"} THEN "returned" ELSE "raised"
    /\ UNCHANGED <<q_kind, q_max, q_limit, q_script, q_i, q_log, q_exit, q_started>>
    /\ UNCHANGED notQuiet

\* line 312: latest = self.adb.get_device_traffic().  traffic.py 94-100:
\* _traffic_parse ends with info.compute_total(), whose number_format calls
\* self.unit.format, and DataUnit has no attribute format.
device_baseline ==
    /\ q_pc = "call" /\ q_kind = "device"
    /\ q_exit' = "AttributeError"
    /\ q_pc' = "raised"
    /\ UNCHANGED <<q_kind, q_max, q_limit, q_script, q_i, q_log, q_started, q_stops>>
    /\ UNCHANGED notQuiet

\* lines 313-331: one round of the device detector's loop
device_sample ==
    /\ q_pc = "loop" /\ q_kind = "device"
    /\ CanSample
    /\ \/ /\ q_exit' = "read"                  \* the counters cannot be read
          /\ q_pc' = "raised"
          /\ UNCHANGED <<q_i, q_log>>
       \/ /\ \E s \in NextSamples : q_log' = Append(q_log, s)
          /\ q_i' = q_i + 1
          /\ IF window_ready(q_kind, q_log', q_limit)
             THEN q_exit' = "true" /\ q_pc' = "returned"
             ELSE UNCHANGED <<q_exit, q_pc>>
    /\ UNCHANGED <<q_kind, q_max, q_limit, q_script, q_started, q_stops>>
    /\ UNCHANGED notQuiet

\* lines 332-337
device_exhausted ==
    /\ q_pc = "loop" /\ q_kind = "device"
    /\ q_i = q_max
    /\ q_exit' = "false"
    /\ q_pc' = "returned"
    /\ UNCHANGED <<q_kind, q_max, q_limit, q_script, q_i, q_log, q_started, q_stops>>
    /\ UNCHANGED notQuiet

QuietNext ==
    \/ q_prepare_and_start
    \/ q_go_back
    \/ app_sample
    \/ app_exhausted
    \/ q_finally_stop
    \/ device_baseline
    \/ device_sample
    \/ device_exhausted

\* the samples the detector had before it at its j-th round
SeenAt(j) == Len(q_log) - (q_i - j)

\* the limit_seconds samples that end with sample n all pass the detector's test
WindowPasses(n) ==
    /\ n >= q_limit
    /\ \A k \in (n - q_limit + 1) .. n : sample_ok(q_kind, q_log[k])

C18_NotBeforeLimitSamples == q_exit = "true" => q_i >= q_limit

\* C19: a detector that leaves without a qualifying window, all its
\* commands to the device having succeeded, returns False after exactly
\* max_check_second samples and raises nothing.
C19_FalseAfterMaxSamples ==
    /\ q_pc \in {"returned", "raised"}
    /\ q_exit \notin {"true", "start", "go_back", "read"}
    => q_exit = "false" /\ q_i = q_max

\* C20: on the traffic of Scenario C (limit_seconds 3, max_check_second 10)
\* the detector answers True at the 6th sample.
C20_TrueAtSixthSample ==
    q_script = ScenarioC /\ q_exit = "true" => q_i = 6

\* C20, amended: on the traffic of Scenario C the app detector, while its
\* reads succeed, answers True at the 5th sample and never False.
C20_TrueAtFifthSample ==
    q_script = ScenarioC /\ q_kind = "app" =>
        /\ q_i <= 5
        /\ q_exit \in {"true", "false"} => q_exit = "true" /\ q_i = 5
        /\ q_i = 5 => q_exit = "true"

C20_Witness ==
    /\ q_script = ScenarioC /\ q_kind = "app"
    /\ q_pc = "returned" /\ q_exit = "true" /\ q_stops = 1

\* C33: once check_app_netflow_in_threshold has started the traffic
\* statistics, every exit (True, False, an exception while sampling, an
\* exception of go_back right after the start) has invoked
\* stop_statistics_net_traffic exactly once.
C33_StatisticsStoppedOnEveryExit ==
    /\ q_kind = "app" /\ q_started
    /\ q_pc \in {"returned", "raised"}
    => q_stops = 1

(***************************************************************************)
(* The pid list of a tick, shared by the tick's CPU task and memory task   *)
(* (perf_helper.py 160-162): get_processes_cpu_usage removes vanished pids *)
(* from it while get_processes_memory iterates over it.                    *)
(***************************************************************************)
\* a Python list iterator: the element at the next position, None once the
\* position is past the end of the list as it is now
list_next(list, consumed) ==
    IF consumed < Len(list) THEN Some(list[consumed + 1]) ELSE None

ShStart(pc) ==
    /\ sh_cpu_pc = pc /\ sh_cpu_i = 0 /\ sh_miss = <<>>
    /\ sh_mem_pc = (IF pc = "off" THEN "off" ELSE "iter")
    /\ sh_mem_i = 0 /\ sh_seen = {} /\ sh_total = None
    /\ sh_list = SetToSeq(Pids)

ShOff == ShStart("off") /\ sh_alive = {}

\* _work_on_cpu_memory has listed the processes and queued both tasks; some
\* of the listed processes have exited since
ShInit == ShStart("scan") /\ sh_alive \in SUBSET Pids

\* get_processes_cpu_usage, lines 154-163: one round of `for pi in process_id_list`
sh_cpu_read ==
    /\ sh_cpu_pc = "scan"
    /\ ~IsNone(list_next(sh_list, sh_cpu_i))
    /\ LET pi == Val(list_next(sh_list, sh_cpu_i))
       IN sh_miss' = IF is_miss(IF pi \in sh_alive THEN "ok" ELSE "gone")
                     THEN Append(sh_miss, pi) ELSE sh_miss
    /\ sh_cpu_i' = sh_cpu_i + 1
    /\ UNCHANGED <<sh_list, sh_alive, sh_cpu_pc, sh_mem_pc, sh_mem_i, sh_seen, sh_total>>
    /\ UNCHANGED notSh

\* the for loop of get_processes_cpu_usage is exhausted
sh_cpu_scanned ==
    /\ sh_cpu_pc = "scan"
    /\ IsNone(list_next(sh_list, sh_cpu_i))
    /\ sh_cpu_pc' = "remove"
    /\ UNCHANGED <<sh_list, sh_alive, sh_cpu_i, sh_miss, sh_mem_pc, sh_mem_i, sh_seen, sh_total>>
    /\ UNCHANGED notSh

\* lines 164-166: process_id_list.remove(xp) for the next missing pid
sh_cpu_remove ==
    /\ sh_cpu_pc = "remove"
    /\ sh_miss # <<>>
    /\ sh_list' = RemoveFirst(sh_list, Head(sh_miss))
    /\ sh_miss' = Tail(sh_miss)
    /\ UNCHANGED <<sh_alive, sh_cpu_pc, sh_cpu_i, sh_mem_pc, sh_mem_i, sh_seen, sh_total>>
    /\ UNCHANGED notSh

\* line 167: get_processes_cpu_usage returns
sh_cpu_return ==
    /\ sh_cpu_pc = "remove"
    /\ sh_miss = <<>>
    /\ sh_cpu_pc' = "done"
    /\ UNCHANGED <<sh_list, sh_alive, sh_cpu_i, sh_miss, sh_mem_pc, sh_mem_i, sh_seen, sh_total>>
    /\ UNCHANGED notSh

\* get_processes_memory, lines 120-131: one round of `for pi in process_id_list`
sh_mem_read ==
    /\ sh_mem_pc = "iter"
    /\ ~IsNone(list_next(sh_list, sh_mem_i))
    /\ LET pi == Val(list_next(sh_list, sh_mem_i))
       IN /\ sh_seen' = sh_seen \cup {pi}
          /\ sh_total' = IF pi \notin sh_alive THEN sh_total
                         ELSE IF IsNone(sh_total) THEN Some(ProcPss(pi))
                         ELSE Some(Val(sh_total) + ProcPss(pi))
    /\ sh_mem_i' = sh_mem_i + 1
    /\ UNCHANGED <<sh_list, sh_alive, sh_cpu_pc, sh_cpu_i, sh_miss, sh_mem_pc>>
    /\ UNCHANGED notSh

\* line 132: get_processes_memory returns total
sh_mem_return ==
    /\ sh_mem_pc = "iter"
    /\ IsNone(list_next(sh_list, sh_mem_i))
    /\ sh_mem_pc' = "done"
    /\ UNCHANGED <<sh_list, sh_alive, sh_cpu_pc, sh_cpu_i, sh_miss, sh_mem_i, sh_seen, sh_total>>
    /\ UNCHANGED notSh

ShNext ==
    \/ sh_cpu_read
    \/ sh_cpu_scanned
    \/ sh_cpu_remove
    \/ sh_cpu_return
    \/ sh_mem_read
    \/ sh_mem_return

RECURSIVE PssSum(_)
\* the total_pss of the dumps of a set of pids
PssSum(S) ==
    IF S = {} THEN 0
    ELSE LET p == CHOOSE q \in S : TRUE IN ProcPss(p) + PssSum(S \ {p})

\* C31: the memory task of a tick sums the memory of every pid of the pid
\* list that is alive, whatever the CPU task removes from the list meanwhile:
\* when it returns it has polled every live pid and its total is their sum.
C31_MemorySumsEveryLivePid ==
    sh_mem_pc = "done" =>
        /\ sh_alive \subseteq sh_seen
        /\ sh_alive # {} => sh_total = Some(PssSum(sh_alive))

(***************************************************************************)
(* A with-block over an adb proxy: AdbBase.__enter__ / __exit__            *)
(* (base_adb.py 205-209), AdbProxy.close (227-228) and                     *)
(* AdbProxyWithTools.close (adb_with_tools.py 51-54).  A shell command is  *)
(* answered or raises (the transport drops, the device goes offline).      *)
(***************************************************************************)
MaxBody == 2        \* most commands a with-block sends

ProxyKinds == {"AdbProxy", "AdbProxyWithTools"}
Transports == {"PyAdb", "PureAdb"}

ClStart(pc) ==
    /\ cl_pc = pc /\ cl_done = 0 /\ cl_exc = "none"
    /\ cl_tool = FALSE /\ cl_kills = 0 /\ cl_closes = 0

ClOff == ClStart("off") /\ cl_kind = "AdbProxy" /\ cl_impl = "PyAdb" /\ cl_body = 0

\* `with AdbProxy(impl) as _adb:` / `with AdbProxyWithToolsAll(impl) as _adb:`
ClInit ==
    /\ ClStart("body")
    /\ cl_kind \in ProxyKinds
    /\ cl_impl \in Transports
    /\ cl_body \in 0 .. MaxBody

\* one command of the block: answered, answered after starting the tool app
\* (start_tools_app), or raising
block_command ==
    /\ cl_pc = "body" /\ cl_done < cl_body
    /\ \E o \in {"ok", "start_tools_app", "raises"} :
          /\ o = "start_tools_app" => cl_kind = "AdbProxyWithTools"
          /\ cl_tool' = (cl_tool \/ o = "start_tools_app")
          /\ IF o = "raises"
             THEN cl_exc' = "body" /\ cl_pc' = "exit" /\ UNCHANGED cl_done
             ELSE cl_done' = cl_done + 1 /\ UNCHANGED <<cl_exc, cl_pc>>
    /\ UNCHANGED <<cl_kind, cl_impl, cl_body, cl_kills, cl_closes>>
    /\ UNCHANGED notCl

\* the block ends normally
block_end ==
    /\ cl_pc = "body" /\ cl_done = cl_body
    /\ cl_pc' = "exit"
    /\ UNCHANGED <<cl_kind, cl_impl, cl_body, cl_done, cl_exc, cl_tool, cl_kills, cl_closes>>
    /\ UNCHANGED notCl

\* adb_with_tools.py 52: `if kill_tools:` with the default kill_tools=True
kills_tools(kind) == kind = "AdbProxyWithTools"

\* __exit__: self.close(), dispatched on the class of the proxy
with_exit ==
    /\ cl_pc = "exit"
    /\ cl_pc' = IF kills_tools(cl_kind) THEN "kill" ELSE "close"
    /\ UNCHANGED <<cl_kind, cl_impl, cl_body, cl_done, cl_exc, cl_tool, cl_kills, cl_closes>>
    /\ UNCHANGED notCl

\* AdbProxyWithTools.close, line 53: self.kill_tools_app(), whose exception
\* leaves close() and __exit__
close_kill_tools ==
    /\ cl_pc = "kill"
    /\ cl_kills' = cl_kills + 1
    /\ \E answered \in BOOLEAN :
          /\ cl_tool' = (cl_tool /\ ~answered)
          /\ cl_exc' = IF answered THEN cl_exc ELSE "kill"
          /\ cl_pc' = IF answered THEN "close" ELSE "left"
    /\ UNCHANGED <<cl_kind, cl_impl, cl_body, cl_done, cl_closes>>
    /\ UNCHANGED notCl

\* AdbProxy.close: self._impl.close().  PyAdb.close swallows every
\* exception of adb.Close(); PureAdb.close is disconnect(), which may raise
impl_close ==
    /\ cl_pc = "close"
    /\ cl_closes' = cl_closes + 1
    /\ \E raises \in BOOLEAN :
          cl_exc' = IF raises /\ cl_impl = "PureAdb" THEN "close" ELSE cl_exc
    /\ cl_pc' = "left"
    /\ UNCHANGED <<cl_kind, cl_impl, cl_body, cl_done, cl_tool, cl_kills>>
    /\ UNCHANGED notCl

ClNext ==
    \/ block_command
    \/ block_end
    \/ with_exit
    \/ close_kill_tools
    \/ impl_close

\* C37: when the with-block has been left, normally or by an exception,
\* the transport's close() has been called exactly once, for
\* AdbProxyWithTools also when killing the tool app failed.
C37_TransportClosedOnce == cl_pc = "left" => cl_closes = 1

(***************************************************************************)
(* adb_with_tools.py 13-46: the check that the tool app is installed.      *)
(* TOOLS_APP is a class attribute of AdbProxyWithTools: one AppInfo object *)
(* for every proxy instance of the process.                                *)
(***************************************************************************)
MaxProxies == 2     \* proxy instances, each connected to its own device
MaxToolCalls == 3   \* calls made on them

Proxies == 1 .. MaxProxies
ToolVersion == "1.0"

TlOff == tl_installed = <<>> /\ tl_version = None /\ tl_log = <<>>

\* the class is loaded (TOOLS_APP.version is None) and the proxies are built
TlInit ==
    /\ tl_installed \in [Proxies -> BOOLEAN]
    /\ tl_version = None
    /\ tl_log = <<>>

\* base_adb.py 115-119: get_app_version, None when `pm dump` shows no version
get_app_version(installed) == IF installed THEN Some(ToolVersion) ELSE None

\* check_tools_app, lines 31-42, on an instance whose device has the tool
\* app or not: the version it leaves in TOOLS_APP and whether it raises
check_tools_app(version, installed) ==
    IF ~IsNone(version)
    THEN [version |-> version, raises |-> FALSE]
    ELSE [version |-> get_app_version(installed),
          raises |-> IsNone(get_app_version(installed))]

\* lines 23-29: check_tools_app, then the broadcast command
send_broadcast_2tools_app ==
    /\ Len(tl_log) < MaxToolCalls
    /\ \E i \in Proxies :
          LET chk == check_tools_app(tl_version, tl_installed[i])
          IN /\ tl_version' = chk.version
             /\ tl_log' = Append(tl_log,
                    [inst |-> i, op |-> "broadcast",
                     result |-> IF chk.raises THEN "EnvironmentError" ELSE "sent"])
    /\ UNCHANGED tl_installed
    /\ UNCHANGED notTl

\* lines 44-46: check_tools_app, then start_app(TOOLS_APP)
start_tools_app ==
    /\ Len(tl_log) < MaxToolCalls
    /\ \E i \in Proxies :
          LET chk == check_tools_app(tl_version, tl_installed[i])
          IN /\ tl_version' = chk.version
             /\ tl_log' = Append(tl_log,
                    [inst |-> i, op |-> "start",
                     result |-> IF chk.raises THEN "EnvironmentError" ELSE "sent"])
    /\ UNCHANGED tl_installed
    /\ UNCHANGED notTl

TlNext == send_broadcast_2tools_app \/ start_tools_app

\* C38: the check is made per device: every call of
\* send_broadcast_2tools_app or start_tools_app on an instance whose device
\* has no tool app raises EnvironmentError, whatever was called before on
\* other instances.
C38_CheckedPerDevice ==
    \A k \in 1 .. Len(tl_log) :
        ~tl_installed[tl_log[k].inst] => tl_log[k].result = "EnvironmentError"

(***************************************************************************)
(* cpu.py 40-80: get_cpu_x_max_freq and its fallback flag.  The class body *)
(* sets __cpu_scaling_max_freq_enable = True; the method assigns           *)
(* self.__cpu_scaling_max_freq_enable = False, which creates an attribute  *)
(* of the instance.  A read of self.<name> takes the instance's attribute  *)
(* when it has one and the class's otherwise.                              *)
(***************************************************************************)
MaxFreqCalls == 3   \* calls of get_cpu_x_max_freq made on the instances

FqOff == fq_own = <<>> /\ fq_log = <<>>

\* the instances are built: none has an attribute of its own
FqInit == fq_own = [i \in Proxies |-> None] /\ fq_log = <<>>

\* a flag kept in the class: cleared for all once any instance cleared it
scaling_max_freq_enable_shared(own, i) == \A j \in DOMAIN own : IsNone(own[j])

\* line 64: `if self.__cpu_scaling_max_freq_enable:` (class value: line 41)
scaling_max_freq_enable(own, i) == IF IsNone(own[i]) THEN TRUE ELSE Val(own[i])

\* lines 64-80, one call with its recursive call: the file read first is
\* scaling_max_freq while the flag is on; a read that int() cannot parse
\* clears the instance's flag and the call starts over with
\* cpuinfo_max_freq, whose failure raises
get_cpu_x_max_freq ==
    /\ Len(fq_log) < MaxFreqCalls
    /\ \E i \in Proxies, first_ok \in BOOLEAN, second_ok \in BOOLEAN :
          IF scaling_max_freq_enable(fq_own, i)
          THEN IF first_ok
               THEN /\ fq_log' = Append(fq_log, [inst |-> i,
                           reads |-> <<"scaling_max_freq">>, result |-> "value"])
                    /\ UNCHANGED fq_own
               ELSE /\ fq_own' = [fq_own EXCEPT ![i] = Some(FALSE)]
                    /\ fq_log' = Append(fq_log, [inst |-> i,
                           reads |-> <<"scaling_max_freq", "cpuinfo_max_freq">>,
                           result |-> IF second_ok THEN "value" ELSE "raises"])
          ELSE /\ fq_log' = Append(fq_log, [inst |-> i,
                      reads |-> <<"cpuinfo_max_freq">>,
                      result |-> IF first_ok THEN "value" ELSE "raises"])
               /\ UNCHANGED fq_own
    /\ UNCHANGED notFq

FqNext == get_cpu_x_max_freq

\* an earlier call on the same instance went on to cpuinfo_max_freq
FellBackBefore(k) ==
    \E j \in 1 .. (k - 1) :
        fq_log[j].inst = fq_log[k].inst /\ Len(fq_log[j].reads) = 2

\* C39: the fallback state is per adb instance: a call reads
\* scaling_max_freq first unless an earlier call on the same instance fell
\* back to cpuinfo_max_freq, whatever happened on other instances; after
\* its fallback an instance reads cpuinfo_max_freq only; a call falls back
\* at most once.
C39_FallbackPerInstance ==
    \A k \in 1 .. Len(fq_log) :
        /\ Len(fq_log[k].reads) <= 2
        /\ fq_log[k].reads[1] = "scaling_max_freq" <=> ~FellBackBefore(k)
        /\ FellBackBefore(k) => fq_log[k].reads = <<"cpuinfo_max_freq">>

C39_Witness ==
    /\ Len(fq_log) = 3
    /\ fq_log[1].inst = 1 /\ fq_log[1].reads = <<"scaling_max_freq", "cpuinfo_max_freq">>
    /\ fq_log[2].inst = 2 /\ fq_log[2].reads = <<"scaling_max_freq">>
    /\ fq_log[3].inst = 1 /\ fq_log[3].reads = <<"cpuinfo_max_freq">>

(***************************************************************************)
(* The specifications.                                                     *)
(***************************************************************************)
Init == NfOff /\ RecOff /\ SmpInit /\ AggOff /\ RateOff /\ ReqOff /\ PcuOff /\ SnapOff /\ MemOff /\ QuietOff /\ ShOff /\ ClOff /\ TlOff /\ FqOff

Next == SmpNext

Spec == Init /\ [][Next]_vars

\* the sampler with a scheduler that lets a runnable thread run: the control
\* thread and the pool threads are OS threads, sleep(1) and every remote
\* command return
SpecFair == Init /\ [][Next]_vars /\ WF_vars(Next)

InitAgg == NfOff /\ RecOff /\ SmpOff /\ AggInit /\ RateOff /\ ReqOff /\ PcuOff /\ SnapOff /\ MemOff /\ QuietOff /\ ShOff /\ ClOff /\ TlOff /\ FqOff

SpecAgg == InitAgg /\ [][AggNext]_vars

InitRate == NfOff /\ RecOff /\ SmpOff /\ AggOff /\ RateInit /\ ReqOff /\ PcuOff /\ SnapOff /\ MemOff /\ QuietOff /\ ShOff /\ ClOff /\ TlOff /\ FqOff

SpecRate == InitRate /\ [][RateNext]_vars

InitReqCount == NfOff /\ RecOff /\ SmpOff /\ AggOff /\ RateOff /\ ReqInit /\ PcuOff /\ SnapOff /\ MemOff /\ QuietOff /\ ShOff /\ ClOff /\ TlOff /\ FqOff

SpecReqCount == InitReqCount /\ [][ReqNext]_vars

InitNetflow == SmpOff /\ AggOff /\ RateOff /\ ReqOff /\ NfInit /\ RecOff /\ PcuOff /\ SnapOff /\ MemOff /\ QuietOff /\ ShOff /\ ClOff /\ TlOff /\ FqOff

SpecNetflow == InitNetflow /\ [][NfNext]_vars

InitRecord == SmpOff /\ AggOff /\ RateOff /\ ReqOff /\ NfOff /\ RecInit /\ PcuOff /\ SnapOff /\ MemOff /\ QuietOff /\ ShOff /\ ClOff /\ TlOff /\ FqOff

SpecRecord == InitRecord /\ [][RecNext]_vars

InitPcu == SmpOff /\ AggOff /\ RateOff /\ ReqOff /\ NfOff /\ RecOff /\ PcuInit /\ SnapOff /\ MemOff /\ QuietOff /\ ShOff /\ ClOff /\ TlOff /\ FqOff

SpecPcu == InitPcu /\ [][PcuNext]_vars

InitSnap == SmpOff /\ AggOff /\ RateOff /\ ReqOff /\ NfOff /\ RecOff /\ PcuOff /\ SnapInit /\ MemOff /\ QuietOff /\ ShOff /\ ClOff /\ TlOff /\ FqOff

SpecSnap == InitSnap /\ [][SnapNext]_vars

InitMem == SmpOff /\ AggOff /\ RateOff /\ ReqOff /\ NfOff /\ RecOff /\ PcuOff /\ SnapOff /\ MemInit /\ QuietOff /\ ShOff /\ ClOff /\ TlOff /\ FqOff

SpecMem == InitMem /\ [][MemNext]_vars

InitQuiet == SmpOff /\ AggOff /\ RateOff /\ ReqOff /\ NfOff /\ RecOff /\ PcuOff /\ SnapOff /\ MemOff /\ QuietInit /\ ShOff /\ ClOff /\ TlOff /\ FqOff

SpecQuiet == InitQuiet /\ [][QuietNext]_vars

InitShared == SmpOff /\ AggOff /\ RateOff /\ ReqOff /\ NfOff /\ RecOff /\ PcuOff /\ SnapOff /\ MemOff /\ QuietOff /\ ShInit /\ ClOff /\ TlOff /\ FqOff

SpecShared == InitShared /\ [][ShNext]_vars

InitClose == SmpOff /\ AggOff /\ RateOff /\ ReqOff /\ NfOff /\ RecOff /\ PcuOff /\ SnapOff /\ MemOff /\ QuietOff /\ ShOff /\ ClInit /\ TlOff /\ FqOff

SpecClose == InitClose /\ [][ClNext]_vars

InitTools == SmpOff /\ AggOff /\ RateOff /\ ReqOff /\ NfOff /\ RecOff /\ PcuOff /\ SnapOff /\ MemOff /\ QuietOff /\ ShOff /\ ClOff /\ TlInit /\ FqOff

SpecTools == InitTools /\ [][TlNext]_vars

InitFreq == SmpOff /\ AggOff /\ RateOff /\ ReqOff /\ NfOff /\ RecOff /\ PcuOff /\ SnapOff /\ MemOff /\ QuietOff /\ ShOff /\ ClOff /\ TlOff /\ FqInit

SpecFreq == InitFreq /\ [][FqNext]_vars

====
